---- MODULE Spec2Model ----
(***************************************************************************)
(* Model of the FFCx integral generator                                    *)
(* (ffcx/codegeneration/integral_generator.py, class IntegralGenerator).   *)
(*                                                                         *)
(* The generator lowers, per quadrature rule, a factorized expression      *)
(* graph into piecewise / varying temporaries and dofblock accumulation    *)
(* statements.  The state of one IntegralGenerator instance is its IR, its *)
(* variable scopes, its cache of temporary symbols and its name counters.  *)
(***************************************************************************)
EXTENDS Integers, Sequences, FiniteSets, TLC

(***************************************************************************)
(* Bounds of the model.                                                    *)
(***************************************************************************)
NumRules == 2      \* quadrature rules of the integrand
MaxSets  == 2      \* set_var calls issued by a client of the scope store
MaxCalls == 2      \* generate() calls on one instance
MaxNodes == 2      \* nodes of one factorization graph
MaxTerms == 3      \* block-data records of one quadrature rule
MaxOdd   == 2      \* block-data records of a rule with a malformed record
MaxElems == 2      \* element tables of a custom integral
MaxTemps == 3      \* temporary-symbol calls issued by a client
MaxV     == 2      \* subexpressions of one uflacs expression ir

(***************************************************************************)
(* Scope keys: the quadrature rules, and NoneKey for the piecewise scope   *)
(* that python keys by None.                                               *)
(***************************************************************************)
NoneKey   == 0
Rules     == 1..NumRules
ScopeKeys == Rules \cup {NoneKey}

(***************************************************************************)
(* UFL expressions.  one and two are literals (1.0 and 2.0), w, ws and x   *)
(* are modified terminals (ws is w on a sub-mesh), nw is the operator -w,  *)
(* wx the operator w*x and lt the condition w < two.  Expressions are      *)
(* dictionary keys by value.                                               *)
(***************************************************************************)
Literals  == {"one", "two"}
Terminals == {"w", "ws", "x"}
Operators == {"nw", "wx", "lt"}
Exprs     == Literals \cup Terminals \cup Operators

ufl_is_literal(v) == v \in Literals

ufl_operands(v) ==
    CASE v = "nw" -> <<"w">>
      [] v = "wx" -> <<"w", "x">>
      [] v = "lt" -> <<"w", "two">>
      [] OTHER    -> <<>>

is_condition(v) == v = "lt"

(***************************************************************************)
(* LNodes access expressions.  NoAccess stands for python's None.          *)
(*   lit : a literal value           (ufl_to_lnodes of a literal)          *)
(*   mt  : backend access of a modified terminal under scope key q         *)
(*   sym : the temporary symbol  <base>_<q>_<j>                            *)
(***************************************************************************)
NoAccess == [k |-> "none", e |-> "-", q |-> 0, j |-> 0, dt |-> "-"]

LitAccess(v) == [k |-> "lit", e |-> v, q |-> 0, j |-> 0, dt |-> "real"]

MtAccess(v, q) == [k |-> "mt", e |-> v, q |-> q, j |-> 0, dt |-> "scalar"]

SymAccess(base, q, j, dt) == [k |-> "sym", e |-> base, q |-> q, j |-> j, dt |-> dt]

VARIABLES
    ir,               \* self.ir: the intermediate representation (read only)
    scopes,           \* self.scopes: scope key -> (expression -> access)
    temp_symbols,     \* self.temp_symbols: cache key -> symbol number
    symbol_counters,  \* self.symbol_counters: basename -> next number
    pc,               \* position of the running generate() call
    ri,               \* position of generate()'s loop over the rules
    parts,            \* generate(): parts (the tables)
    all_preparts,     \* generate(): all_preparts
    all_quadparts,    \* generate(): all_quadparts
    result,           \* what the last generate() call returned or raised
    calls,            \* generate() calls started so far
    lookups,          \* the factor lookups of generate_block_parts so far
    nsets,            \* set_var calls issued by the client so far
    last,             \* the client's last scope-store call and its result
    uflacs_ir,        \* uflacs generator: self.ir (read only)
    variables,        \* uflacs generator: self.expr_formatter.variables
    uflacs_parts,     \* uflacs generate(): parts
    uflacs_pc,        \* position of the running uflacs generate() call
    uflacs_result     \* what the uflacs generate() call returned or raised

vars == <<ir, scopes, temp_symbols, symbol_counters, pc, ri, parts,
          all_preparts, all_quadparts, result, calls, lookups, nsets, last,
          uflacs_ir, variables, uflacs_parts, uflacs_pc, uflacs_result>>

genLocals  == <<pc, ri, parts, all_preparts, all_quadparts, result, calls, lookups>>
clientVars == <<nsets, last>>
uflacsVars == <<uflacs_ir, variables, uflacs_parts, uflacs_pc, uflacs_result>>
ffcxVars   == <<ir, scopes, temp_symbols, symbol_counters, genLocals, clientVars>>

(***************************************************************************)
(* init_scopes: one empty dictionary per rule of the integrand and one for *)
(* None.  An absent key is modelled by the value NoAccess.                 *)
(***************************************************************************)
EmptyScope == [v \in Exprs |-> NoAccess]

init_scopes(rules) == [q \in rules \cup {NoneKey} |-> EmptyScope]

(***************************************************************************)
(* set_var: self.scopes[quadrature_rule][v] = vaccess                      *)
(***************************************************************************)
set_var(sc, q, v, vaccess) == [sc EXCEPT ![q][v] = vaccess]

(***************************************************************************)
(* get_var: a literal is translated directly; otherwise the quadrature     *)
(* loop scope is looked up first and the piecewise scope second.           *)
(***************************************************************************)
get_var_no_fallback(sc, q, v) ==
    IF ufl_is_literal(v) THEN LitAccess(v) ELSE sc[q][v]

get_var_any_scope(sc, q, v) ==
    IF ufl_is_literal(v) THEN LitAccess(v)
    ELSE IF sc[q][v] # NoAccess THEN sc[q][v]
    ELSE IF sc[NoneKey][v] # NoAccess THEN sc[NoneKey][v]
    ELSE IF \E r \in DOMAIN sc : sc[r][v] # NoAccess
         THEN sc[CHOOSE r \in DOMAIN sc : sc[r][v] # NoAccess][v]
         ELSE NoAccess

get_var_stored_only(sc, q, v) ==
    IF sc[q][v] = NoAccess THEN sc[NoneKey][v] ELSE sc[q][v]

get_var(sc, q, v) ==
    IF ufl_is_literal(v) THEN LitAccess(v)
    ELSE LET f == sc[q][v]
         IN  IF f = NoAccess THEN sc[NoneKey][v] ELSE f

(***************************************************************************)
(* The backend (access and definitions providers), by contract: the access *)
(* of a modified terminal is an expression over backend symbols; its       *)
(* definition is a Section, or None when the terminal needs no definition  *)
(* (x stands for such a terminal).  The definitions of w and of ws, the    *)
(* same terminal on a sub-mesh, are equal.                                 *)
(***************************************************************************)
NoDef == [k |-> "none", e |-> "-", q |-> 0]

backend_access_get(mt, q) == MtAccess(mt, q)

backend_definitions_get(mt, q) ==
    IF mt = "x" THEN NoDef
    ELSE [k |-> "section", e |-> IF mt = "ws" THEN "w" ELSE mt, q |-> q]

IsSection(d) == d.k = "section"

(***************************************************************************)
(* optimize(code, quadrature_rule): the structural optimizer, by contract  *)
(* content-preserving.                                                     *)
(***************************************************************************)
optimize(code, q) == code

(***************************************************************************)
(* extract_dtype: every operand must carry a dtype (an LNodes expression   *)
(* or an int); None does not and raises RuntimeError.  The result is BOOL  *)
(* for a condition and the merge of the operands' dtypes otherwise.        *)
(***************************************************************************)
merge_dtypes(dts) ==
    IF "scalar" \in dts THEN "scalar"
    ELSE IF "real" \in dts THEN "real"
    ELSE IF "int" \in dts THEN "int"
    ELSE "bool"

extract_dtype_unchecked(v, vops) ==
    IF is_condition(v) THEN "bool"
    ELSE merge_dtypes({vops[i].dt : i \in 1..Len(vops)})

extract_dtype(v, vops) ==
    IF \E i \in 1..Len(vops) : vops[i] = NoAccess THEN "RuntimeError"
    ELSE IF is_condition(v) THEN "bool"
    ELSE merge_dtypes({vops[i].dt : i \in 1..Len(vops)})

(***************************************************************************)
(* generate_partition.  acc carries self.scopes, the definitions and       *)
(* intermediates lists built so far and the exception raised, if any; the  *)
(* loop visits F.nodes in order from node i.  symbol names the partition:  *)
(* <<"sp", id>> or <<"sv", id>>.                                           *)
(***************************************************************************)
SeqContains(s, x) == \E i \in 1..Len(s) : s[i] = x

lower_node_always(acc, attr, symbol, q) ==
    LET v == attr.expression
    IN  IF ufl_is_literal(v)
        THEN [acc EXCEPT !.scopes = set_var(acc.scopes, q, v, LitAccess(v))]
        ELSE IF v \in Terminals
        THEN LET vaccess == backend_access_get(v, q)
                 vdef    == backend_definitions_get(v, q)
             IN  [acc EXCEPT
                    !.definitions = IF SeqContains(acc.definitions, vdef)
                                    THEN @ ELSE Append(@, vdef),
                    !.scopes = set_var(acc.scopes, q, v, vaccess)]
        ELSE LET ops   == ufl_operands(v)
                 vops  == [i \in 1..Len(ops) |-> get_var(acc.scopes, q, ops[i])]
                 dtype == extract_dtype(v, vops)
                 j     == Len(acc.intermediates)
                 vaccess == SymAccess(symbol[1], symbol[2], j, dtype)
             IN  IF dtype = "RuntimeError"
                 THEN [acc EXCEPT !.err = "RuntimeError"]
                 ELSE [acc EXCEPT
                         !.intermediates =
                             Append(@, [symbol |-> vaccess, v |-> v, vops |-> vops]),
                         !.scopes = set_var(acc.scopes, q, v, vaccess)]

lower_node_numbered_by_all(acc, attr, symbol, q) ==
    IF get_var(acc.scopes, q, attr.expression) # NoAccess
    THEN acc
    ELSE IF attr.expression \in Operators
    THEN LET r == lower_node_always(acc, attr, symbol, q)
             j == Len(acc.intermediates) + Len(acc.definitions)
         IN  IF r.err # "none" THEN r
             ELSE [r EXCEPT
                     !.intermediates[Len(r.intermediates)].symbol.j = j,
                     !.scopes[q][attr.expression].j = j]
    ELSE lower_node_always(acc, attr, symbol, q)

lower_node_appending(acc, attr, symbol, q) ==
    IF get_var(acc.scopes, q, attr.expression) # NoAccess
    THEN acc
    ELSE IF attr.expression \in Terminals
    THEN [acc EXCEPT
            !.definitions = Append(@, backend_definitions_get(attr.expression, q)),
            !.scopes = set_var(acc.scopes, q, attr.expression,
                               backend_access_get(attr.expression, q))]
    ELSE lower_node_always(acc, attr, symbol, q)

lower_node(acc, attr, symbol, q) ==
    IF get_var(acc.scopes, q, attr.expression) # NoAccess
    THEN acc
    ELSE lower_node_always(acc, attr, symbol, q)

RECURSIVE partition_loop(_, _, _, _, _, _)
partition_loop(acc, i, nodes, symbol, mode, q) ==
    IF i > Len(nodes) \/ acc.err # "none" THEN acc
    ELSE IF nodes[i].status # mode
         THEN partition_loop(acc, i + 1, nodes, symbol, mode, q)
         ELSE partition_loop(lower_node(acc, nodes[i], symbol, q),
                             i + 1, nodes, symbol, mode, q)

generate_partition(sc, symbol, nodes, mode, q) ==
    LET acc == partition_loop(
                   [scopes |-> sc, definitions |-> <<>>, intermediates |-> <<>>,
                    err |-> "none"],
                   1, nodes, symbol, mode, q)
    IN  [acc EXCEPT !.definitions = optimize(acc.definitions, q)]

(***************************************************************************)
(* generate_piecewise_partition / generate_varying_partition.  The rule's  *)
(* id() names the partition's temporaries; rules are numbered by their id. *)
(***************************************************************************)
generate_piecewise_partition(sc, F, q) ==
    generate_partition(sc, <<"sp", q>>, F[q], "piecewise", NoneKey)

generate_varying_partition(sc, F, q) ==
    generate_partition(sc, <<"sv", q>>, F[q], "varying", q)

(***************************************************************************)
(* new_temp_symbol / get_temp_symbol.  temp_symbols is the set of cache    *)
(* entries [key, n]: key is (tempname,) + key and n the number in the      *)
(* symbol's name tempname<n>.  symbol_counters maps a basename to the next *)
(* number (a defaultdict(int)).                                            *)
(***************************************************************************)
Basenames == {"fw", "tmp"}

NoCounters == [b \in Basenames |-> 0]

\* "%s%d" % (basename, n)
Digits == <<"0", "1", "2", "3", "4", "5", "6", "7", "8", "9">>

RECURSIVE format_int(_)
format_int(n) ==
    IF n < 10 THEN Digits[n + 1]
    ELSE format_int(n \div 10) \o Digits[(n % 10) + 1]

symbol_name(basename, n) == basename \o format_int(n)

new_temp_symbol_no_increment(ts, basename) ==
    [n |-> ts.symbol_counters[basename],
     name |-> symbol_name(basename, ts.symbol_counters[basename]),
     symbol_counters |-> ts.symbol_counters]

new_temp_symbol(ts, basename) ==
    [n |-> ts.symbol_counters[basename],
     name |-> symbol_name(basename, ts.symbol_counters[basename]),
     symbol_counters |-> [ts.symbol_counters EXCEPT ![basename] = @ + 1]]

get_temp_symbol_uncached(ts, tempname, key) ==
    LET new == new_temp_symbol(ts, tempname)
    IN  [n |-> new.n, name |-> new.name, defined |-> FALSE,
         temp_symbols |-> ts.temp_symbols
             \cup {[key |-> <<tempname>> \o key, n |-> new.n, name |-> new.name]},
         symbol_counters |-> new.symbol_counters]

get_temp_symbol(ts, tempname, key) ==
    LET k == <<tempname>> \o key
    IN  IF \E s \in ts.temp_symbols : s.key = k
        THEN [n |-> (CHOOSE s \in ts.temp_symbols : s.key = k).n,
              name |-> (CHOOSE s \in ts.temp_symbols : s.key = k).name,
              defined |-> TRUE,
              temp_symbols |-> ts.temp_symbols,
              symbol_counters |-> ts.symbol_counters]
        ELSE LET new == new_temp_symbol(ts, tempname)
             IN  [n |-> new.n, name |-> new.name, defined |-> FALSE,
                  temp_symbols |-> ts.temp_symbols
                      \cup {[key |-> k, n |-> new.n, name |-> new.name]},
                  symbol_counters |-> new.symbol_counters]

(***************************************************************************)
(* Tuples compare as in python: lexicographically, a proper prefix first.  *)
(***************************************************************************)
MinOf(a, b) == IF a < b THEN a ELSE b

TupleLess(a, b) ==
    \E k \in 1..(MinOf(Len(a), Len(b)) + 1) :
        /\ \A m \in 1..(k - 1) : a[m] = b[m]
        /\ IF k <= Len(a) /\ k <= Len(b) THEN a[k] < b[k]
           ELSE k > Len(a) /\ k <= Len(b)

BlockmapLess(a, b) ==
    \E k \in 1..(MinOf(Len(a), Len(b)) + 1) :
        /\ \A m \in 1..(k - 1) : a[m] = b[m]
        /\ IF k <= Len(a) /\ k <= Len(b) THEN TupleLess(a[k], b[k])
           ELSE k > Len(a) /\ k <= Len(b)

(***************************************************************************)
(* generate_dofblock_partition, first half: the list blocks, which is the  *)
(* items of block_contributions sorted by blockmap, each item's            *)
(* contributions in their order; and the grouping by scalar blockmap.      *)
(***************************************************************************)
sorted_blocks(terms) ==
    LET n == Len(terms)
        pos(i) == Cardinality({j \in 1..n :
                       BlockmapLess(terms[j].blockmap, terms[i].blockmap)})
                  + Cardinality({j \in 1..i :
                       terms[j].blockmap = terms[i].blockmap})
    IN  [p \in 1..n |-> terms[CHOOSE i \in 1..n : pos(i) = p]]

scalar_blockmap_no_division(blockmap, blockdata) ==
    [i \in 1..Len(blockmap) |->
        [k \in 1..Len(blockmap[i]) |->
            blockmap[i][k] - blockdata.ma_data[i].offset]]

scalar_blockmap(blockmap, blockdata) ==
    [i \in 1..Len(blockmap) |->
        [k \in 1..Len(blockmap[i]) |->
            (blockmap[i][k] - blockdata.ma_data[i].offset)
                \div blockdata.ma_data[i].block_size]]

RECURSIVE distinct_in_order(_)
distinct_in_order(keys) ==
    IF keys = <<>> THEN <<>>
    ELSE LET init == distinct_in_order(SubSeq(keys, 1, Len(keys) - 1))
             x    == keys[Len(keys)]
         IN  IF SeqContains(init, x) THEN init ELSE Append(init, x)

block_group_keys(blocks) ==
    distinct_in_order([p \in 1..Len(blocks) |->
                          scalar_blockmap(blocks[p].blockmap, blocks[p])])

block_group(blocks, key) ==
    SelectSeq(blocks, LAMBDA t : scalar_blockmap(t.blockmap, t) = key)

(***************************************************************************)
(* L.float_product([f, weight]), by contract: factors equal to one are     *)
(* dropped, a single remaining factor is returned as it is, and several    *)
(* make a Product.  With f the literal 1.0 the result is the weight access *)
(* itself; None is no expression and raises.                               *)
(***************************************************************************)
weight_access(integral_type, q) ==
    [k |-> "weights", n |-> IF integral_type = "custom" THEN NoneKey ELSE q]

fw_product(f, weight) ==
    IF f = NoAccess THEN [k |-> "RuntimeError", n |-> 0]
    ELSE IF f = LitAccess("one") THEN weight
    ELSE [k |-> "Product", n |-> 0]

(***************************************************************************)
(* get_arg_factors: per argument slot the table access, or 1 for a table   *)
(* of ones; a table of zeros fails the assertion.                          *)
(***************************************************************************)
get_arg_factors(blockdata, block_rank) ==
    IF \E i \in 1..block_rank : blockdata.ma_data[i].ttype = "zeros"
    THEN [err |-> "AssertionError", arg_factors |-> <<>>]
    ELSE [err |-> "none",
          arg_factors |-> [i \in 1..block_rank |->
              IF blockdata.ma_data[i].ttype = "ones" THEN "1" ELSE "table"]]

(***************************************************************************)
(* generate_block_parts, the body of the loop over blocklist for the       *)
(* term blockdata at position t.  acc carries self.temp_symbols,           *)
(* self.symbol_counters, intermediates, the (A_indices, B_rhs) pairs added *)
(* to rhs_expressions so far in the order they were added, the terms whose *)
(* factor was looked up, B_indices and the exception raised, if any.       *)
(***************************************************************************)
A_index(blockmap, blockdata, i) ==
    [mult   |-> IF Len(blockmap[i]) = 1 THEN 1 ELSE blockdata.ma_data[i].block_size,
     offset |-> blockdata.ma_data[i].offset]

block_term_accumulate(acc, t, blockdata, blockmap, fw, af) ==
    IF af.err # "none"
    THEN [acc EXCEPT !.err = af.err]
    ELSE [acc EXCEPT !.rhs = Append(@,
             [A    |-> [i \in 1..Len(blockmap) |-> A_index(blockmap, blockdata, i)],
              fw   |-> fw,
              args |-> SelectSeq(af.arg_factors, LAMBDA a : a # "1"),
              term |-> t])]

block_term_tail_transposed_unchecked(acc, t, blockdata, blockmap, fw) ==
    block_term_accumulate(acc, t, blockdata, blockmap, fw,
                          get_arg_factors(blockdata, Len(blockmap)))

block_term_tail(acc, t, blockdata, blockmap, fw) ==
    IF blockdata.transposed
    THEN [acc EXCEPT !.err = "AssertionError"]
    ELSE block_term_accumulate(acc, t, blockdata, blockmap, fw,
                               get_arg_factors(blockdata, Len(blockmap)))

block_term_cached(acc, t, blockdata, blockmap, f, weight, key, got) ==
    block_term_tail(
        [acc EXCEPT
            !.temp_symbols = got.temp_symbols,
            !.symbol_counters = got.symbol_counters,
            !.intermediates =
                IF got.defined THEN @
                ELSE Append(@, [symbol |-> [k |-> "fw", n |-> got.n],
                                f |-> f, weight |-> weight, key |-> key])],
        t, blockdata, blockmap, [k |-> "fw", n |-> got.n])

block_term_fw(acc, t, blockdata, blockmap, q, f, weight, fw_rhs) ==
    IF fw_rhs.k = "RuntimeError"
    THEN [acc EXCEPT !.err = "RuntimeError"]
    ELSE IF fw_rhs.k # "Product"
    THEN block_term_tail(acc, t, blockdata, blockmap, fw_rhs)
    ELSE block_term_cached(
             acc, t, blockdata, blockmap, f, weight,
             <<q, blockdata.factor_indices[1], blockdata.all_factors_piecewise>>,
             get_temp_symbol(
                 acc, "fw",
                 <<q, blockdata.factor_indices[1], blockdata.all_factors_piecewise>>))

block_term_lookup(acc, t, blockdata, blockmap, q, v, f, weight) ==
    block_term_fw(
        [acc EXCEPT !.lookups = Append(@,
            [q |-> q, t |-> t, v |-> v, f |-> f,
             factor_index |-> blockdata.factor_indices[1],
             nfactors |-> Len(blockdata.factor_indices)])],
        t, blockdata, blockmap, q, f, weight, fw_product(f, weight))

block_term_factor(acc, t, blockdata, blockmap, sc, nodes, integral_type, q) ==
    block_term_lookup(
        acc, t, blockdata, blockmap, q,
        nodes[blockdata.factor_indices[1]].expression,
        get_var(sc, q, nodes[blockdata.factor_indices[1]].expression),
        weight_access(integral_type, q))

with_B_indices(acc, blockdata, blockmap) ==
    [acc EXCEPT !.B_indices =
        [i \in 1..Len(blockmap) |->
            [slot |-> i, size |-> blockdata.ma_data[i].ndofs]]]

block_term_index(acc, t, blockdata, blockmap, sc, nodes, integral_type, q) ==
    IF Len(blockdata.factor_indices) = 0
    THEN [acc EXCEPT !.err = "IndexError"]
    ELSE IF blockdata.factor_indices[1] \notin DOMAIN nodes
    THEN [acc EXCEPT !.err = "KeyError"]
    ELSE block_term_factor(acc, t, blockdata, blockmap, sc, nodes,
                           integral_type, q)

block_term_zeros_unchecked(acc, t, blockdata, blockmap, sc, nodes, integral_type, q) ==
    IF Len(blockdata.factor_indices) > 1
    THEN [with_B_indices(acc, blockdata, blockmap) EXCEPT !.err = "RuntimeError"]
    ELSE block_term_index(with_B_indices(acc, blockdata, blockmap), t, blockdata,
                          blockmap, sc, nodes, integral_type, q)

block_term_nonscalar_unchecked(acc, t, blockdata, blockmap, sc, nodes, integral_type, q) ==
    IF SeqContains(blockdata.ttypes, "zeros")
    THEN [with_B_indices(acc, blockdata, blockmap) EXCEPT !.err = "RuntimeError"]
    ELSE block_term_index(with_B_indices(acc, blockdata, blockmap), t, blockdata,
                          blockmap, sc, nodes, integral_type, q)

block_term(acc, t, blockdata, blockmap, sc, nodes, integral_type, q) ==
    IF SeqContains(blockdata.ttypes, "zeros")
    THEN [with_B_indices(acc, blockdata, blockmap) EXCEPT !.err = "RuntimeError"]
    ELSE IF Len(blockdata.factor_indices) > 1
    THEN [with_B_indices(acc, blockdata, blockmap) EXCEPT !.err = "RuntimeError"]
    ELSE block_term_index(with_B_indices(acc, blockdata, blockmap), t, blockdata,
                          blockmap, sc, nodes, integral_type, q)

RECURSIVE block_terms_loop(_, _, _, _, _, _, _, _)
block_terms_loop(acc, t, blocklist, blockmap, sc, nodes, integral_type, q) ==
    IF t > Len(blocklist) \/ acc.err # "none" THEN acc
    ELSE block_terms_loop(
             block_term(acc, t, blocklist[t], blockmap, sc, nodes, integral_type, q),
             t + 1, blocklist, blockmap, sc, nodes, integral_type, q)

(***************************************************************************)
(* generate_block_parts, after the loop: the statements A[indices] += rhs, *)
(* by A_indices in the order the indices were first met and, under one     *)
(* index, in the order the terms were met; wrapped in the loops over       *)
(* B_indices reversed.                                                     *)
(***************************************************************************)
accumulation_body_merged(rhs) ==
    LET keys == distinct_in_order([i \in 1..Len(rhs) |-> rhs[i].A])
    IN  [k \in 1..Len(keys) |->
            rhs[CHOOSE i \in 1..Len(rhs) : rhs[i].A = keys[k]]]

RECURSIVE concat_all(_)
concat_all(ss) ==
    IF ss = <<>> THEN <<>> ELSE ss[1] \o concat_all(Tail(ss))

accumulation_body(rhs) ==
    LET keys == distinct_in_order([i \in 1..Len(rhs) |-> rhs[i].A])
    IN  concat_all([k \in 1..Len(keys) |->
                       SelectSeq(rhs, LAMBDA r : r.A = keys[k])])

Reverse(s) == [i \in 1..Len(s) |-> s[Len(s) + 1 - i]]

block_parts_result_unreversed(acc, blockmap, blocklist) ==
    [temp_symbols |-> acc.temp_symbols,
     symbol_counters |-> acc.symbol_counters,
     lookups |-> acc.lookups,
     err |-> acc.err,
     intermediates |-> acc.intermediates,
     quadparts |->
         IF acc.err # "none" THEN <<>>
         ELSE << [blockmap  |-> blockmap,
                  blocklist |-> blocklist,
                  loops    |-> acc.B_indices,
                  body     |-> accumulation_body(acc.rhs),
                  licm     |-> Len(acc.B_indices) > 1] >>]

block_parts_result(acc, blockmap, blocklist) ==
    [temp_symbols |-> acc.temp_symbols,
     symbol_counters |-> acc.symbol_counters,
     lookups |-> acc.lookups,
     err |-> acc.err,
     intermediates |-> acc.intermediates,
     quadparts |->
         IF acc.err # "none" THEN <<>>
         ELSE << [blockmap  |-> blockmap,
                  blocklist |-> blocklist,
                  loops    |-> Reverse(acc.B_indices),
                  body     |-> accumulation_body(acc.rhs),
                  licm     |-> Len(acc.B_indices) > 1] >>]

generate_block_parts(ts, sc, nodes, integral_type, q, blockmap, blocklist) ==
    block_parts_result(
        block_terms_loop(
            [temp_symbols |-> ts.temp_symbols,
             symbol_counters |-> ts.symbol_counters,
             intermediates |-> <<>>, rhs |-> <<>>, lookups |-> ts.lookups,
             B_indices |-> <<>>, err |-> "none"],
            1, blocklist, blockmap, sc, nodes, integral_type, q),
        blockmap, blocklist)

(***************************************************************************)
(* generate_dofblock_partition, second half: one generate_block_parts call *)
(* per group, in the order the groups were first met.                      *)
(***************************************************************************)
add_block_parts(acc, r) ==
    [temp_symbols |-> r.temp_symbols,
     symbol_counters |-> r.symbol_counters,
     lookups |-> r.lookups,
     err |-> r.err,
     intermediates |-> acc.intermediates \o r.intermediates,
     quadparts |-> acc.quadparts \o r.quadparts]

RECURSIVE block_groups_loop(_, _, _, _, _, _, _, _)
block_groups_loop(acc, g, keys, blocks, sc, nodes, integral_type, q) ==
    IF g > Len(keys) \/ acc.err # "none" THEN acc
    ELSE block_groups_loop(
             add_block_parts(
                 acc,
                 generate_block_parts(acc, sc, nodes, integral_type, q,
                                      keys[g], block_group(blocks, keys[g]))),
             g + 1, keys, blocks, sc, nodes, integral_type, q)

block_groups(ts, blocks, sc, nodes, integral_type, q) ==
    block_groups_loop(
        [temp_symbols |-> ts.temp_symbols,
         symbol_counters |-> ts.symbol_counters,
         lookups |-> ts.lookups,
         err |-> "none", intermediates |-> <<>>, quadparts |-> <<>>],
        1, block_group_keys(blocks), blocks, sc, nodes, integral_type, q)

generate_dofblock_partition(ts, sc, nodes, integral_type, q, terms) ==
    block_groups(ts, sorted_blocks(terms), sc, nodes, integral_type, q)

(***************************************************************************)
(* The intermediate representation handed to __init__.                     *)
(*   integral_type  : ir.integral_type                                     *)
(*   rules          : the keys of ir.integrand, in dictionary order        *)
(*   F              : rule -> the nodes of integrand[rule]                 *)
(*                    ["factorization"], each with expression and status   *)
(*   blocks         : rule -> integrand[rule]["block_contributions"], as   *)
(*                    the block-data records in the order they were filed, *)
(*                    each with the blockmap it is filed under             *)
(*   tables         : the number of tables in ir.unique_tables             *)
(*   element_tables : ir.unique_element_tables, (key, index of the         *)
(*                    component element in ir.finite_elements) pairs       *)
(***************************************************************************)
RuleSeq == [i \in 1..NumRules |-> i]

MkIR(integral_type, rules, F, blocks) ==
    [integral_type  |-> integral_type,
     rules          |-> rules,
     F              |-> F,
     blocks         |-> blocks,
     tables         |-> 1,
     element_tables |-> <<>>]

EmptyIR == MkIR("cell", RuleSeq, [r \in Rules |-> <<>>], [r \in Rules |-> <<>>])

\* self.ir.integrand.keys(): the rules in the order they were inserted
integrand_keys_ascending(I) == SortSeq(I.rules, LAMBDA a, b : a < b)

integrand_keys(I) == I.rules

Range(s) == {s[i] : i \in 1..Len(s)}

(***************************************************************************)
(* Table references (tabledata) and block-data records.                    *)
(***************************************************************************)
TD(ttype, block_size, offset, ndofs) ==
    [ttype |-> ttype, block_size |-> block_size, offset |-> offset, ndofs |-> ndofs]

td_s    == TD("varying", 1, 0, 2)   \* scalar element
td_v0   == TD("varying", 2, 0, 2)   \* component 0 of a vector element
td_v1   == TD("varying", 2, 1, 2)   \* component 1 of a vector element
td_one  == TD("ones", 1, 0, 1)
td_zero == TD("zeros", 1, 0, 2)

\* the dofs offset + block_size * (k + shift), k = 0 .. ndofs - 1
RawDofs(td, shift) ==
    [k \in 1..td.ndofs |-> td.offset + td.block_size * (k - 1 + shift)]

Term(tds, shift, ttypes, factor_indices, afp, transposed) ==
    [blockmap              |-> [i \in 1..Len(tds) |-> RawDofs(tds[i], shift)],
     ma_data               |-> tds,
     ttypes                |-> ttypes,
     factor_indices        |-> factor_indices,
     all_factors_piecewise |-> afp,
     transposed            |-> transposed]

NormalTerm(tds, fi, afp) ==
    Term(tds, 0, [i \in 1..Len(tds) |-> tds[i].ttype], <<fi>>, afp, FALSE)

(***************************************************************************)
(* The table generators.  A part is [k, q]: its kind and the rule, table   *)
(* or element it is about.                                                 *)
(***************************************************************************)
Part(k, q) == [k |-> k, q |-> q]

commented_code_list(code, comment) ==
    IF code = <<>> THEN <<>> ELSE <<Part("comment", comment)>> \o code

CustomTypes == {"custom"}
PointTypes  == {"vertex"}
IntegralTypes == {"cell"} \cup CustomTypes \cup PointTypes

generate_quadrature_tables_no_skip(I) ==
    commented_code_list(
        [i \in 1..Len(integrand_keys(I)) |->
            Part("weights", integrand_keys(I)[i])], 1)

generate_quadrature_tables(I) ==
    IF I.integral_type \in CustomTypes \cup PointTypes THEN <<>>
    ELSE commented_code_list(
             [i \in 1..Len(integrand_keys(I)) |->
                 Part("weights", integrand_keys(I)[i])], 1)

\* one copy loop: the local table of element e is filled from the run-time
\* array table_<position of e's component element in ir.finite_elements>
copy_table(e) == [k |-> "copy_table", q |-> e.id, src |-> e.fe]

table_parts(et) ==
    concat_all([i \in 1..Len(et) |-> <<Part("table_decl", et[i].id), copy_table(et[i])>>])

generate_custom_integral_tables_release_last(I) ==
    [element_def_parts |->
         <<Part("elements_decl", Len(I.element_tables))>>
             \o [i \in 1..Len(I.element_tables) |->
                    Part("element_create", I.element_tables[i].id)],
     tabulate_parts |->
         <<Part("gdim", 0)>>
             \o [i \in 1..Len(I.element_tables) |->
                    Part("tabulate", I.element_tables[i].id)],
     table_parts |->
         commented_code_list(
             table_parts(I.element_tables)
                 \o [i \in 1..Len(I.element_tables) |-> Part("element_destroy", i - 1)],
             3)]

generate_custom_integral_tables(I) ==
    [element_def_parts |->
         <<Part("elements_decl", Len(I.element_tables))>>
             \o [i \in 1..Len(I.element_tables) |->
                    Part("element_create", I.element_tables[i].id)],
     tabulate_parts |->
         <<Part("gdim", 0)>>
             \o [i \in 1..Len(I.element_tables) |->
                    Part("tabulate", I.element_tables[i].id)]
             \o [i \in 1..Len(I.element_tables) |-> Part("element_destroy", i - 1)],
     table_parts |-> commented_code_list(table_parts(I.element_tables), 3)]

generate_element_tables(I) ==
    commented_code_list(
        IF I.integral_type \in CustomTypes
        THEN LET c == generate_custom_integral_tables(I)
             IN  c.element_def_parts \o c.tabulate_parts \o c.table_parts
        ELSE [i \in 1..I.tables |-> Part("table", i)],
        2)

generate_geometry_tables(I) ==
    IF \E i \in 1..Len(I.rules) :
           \E n \in 1..Len(I.F[I.rules[i]]) : I.F[I.rules[i]][n].expression = "x"
    THEN <<Part("geometry", 0)>>
    ELSE <<>>

(***************************************************************************)
(* generate_quadrature_loop: the varying partition, the dofblock           *)
(* partition, the check that every definition is a Section, the            *)
(* Intermediates section and the loop over the quadrature points.          *)
(***************************************************************************)
quadrature_loop_code(vp, dp, ts, I, q) ==
    [err |-> IF dp.err # "none" THEN dp.err
             ELSE IF \E d \in 1..Len(vp.definitions) : ~IsSection(vp.definitions[d])
                  THEN "AssertionError"
                  ELSE "none",
     scopes |-> vp.scopes,
     temp_symbols |-> dp.temp_symbols,
     symbol_counters |-> dp.symbol_counters,
     lookups |-> dp.lookups,
     loop |-> << [q              |-> q,
                  custom_size    |-> I.integral_type \in CustomTypes,
                  definitions    |-> vp.definitions,
                  intermediates  |-> vp.intermediates,
                  assignments    |-> dp.intermediates,
                  declarations   |-> [i \in 1..Len(dp.intermediates) |->
                                         dp.intermediates[i].symbol],
                  tensor_comp    |-> dp.quadparts] >>]

quadrature_loop_blocks(vp, ts, I, q) ==
    IF vp.err # "none"
    THEN [err |-> vp.err, scopes |-> vp.scopes,
          temp_symbols |-> ts.temp_symbols,
          symbol_counters |-> ts.symbol_counters,
          lookups |-> ts.lookups, loop |-> <<>>]
    ELSE quadrature_loop_code(
             vp,
             generate_dofblock_partition(ts, vp.scopes, I.F[q], I.integral_type,
                                         q, I.blocks[q]),
             ts, I, q)

generate_quadrature_loop_blocks_only(ts, sc, I, q) ==
    quadrature_loop_blocks([scopes |-> sc, definitions |-> <<>>,
                            intermediates |-> <<>>, err |-> "none"],
                           ts, I, q)

generate_quadrature_loop(ts, sc, I, q) ==
    quadrature_loop_blocks(generate_varying_partition(sc, I.F, q), ts, I, q)

(***************************************************************************)
(* generate(), step by step.  GenerateEnter is the assertion that the      *)
(* scopes are empty; GenerateTables the three table generators;            *)
(* GeneratePiecewise and GenerateQuadloop the two calls of the loop over   *)
(* the rules; GenerateReturn the concatenation of the parts.  An exception *)
(* ends the call (pc = "failed") and leaves the instance as it is.         *)
(***************************************************************************)
ScopesEmpty(sc) == \A q \in DOMAIN sc : \A v \in Exprs : sc[q][v] = NoAccess

generate_enter_unchecked(sc, ts, sy) ==
    [pc |-> "tables", scopes |-> sc, temp_symbols |-> ts, symbol_counters |-> sy]

generate_enter_resetting(sc, ts, sy) ==
    [pc |-> "tables", scopes |-> [q \in DOMAIN sc |-> EmptyScope],
     temp_symbols |-> {}, symbol_counters |-> NoCounters]

generate_enter(sc, ts, sy) ==
    [pc |-> IF ScopesEmpty(sc) THEN "tables" ELSE "failed",
     scopes |-> sc, temp_symbols |-> ts, symbol_counters |-> sy]

EnterStep(e) ==
    /\ pc' = e.pc
    /\ scopes' = e.scopes
    /\ temp_symbols' = e.temp_symbols
    /\ symbol_counters' = e.symbol_counters
    /\ result' = IF e.pc = "failed" THEN "AssertionError" ELSE "running"

GenerateEnter ==
    /\ pc \in {"idle", "done", "failed"}
    /\ calls < MaxCalls
    /\ calls' = calls + 1
    /\ EnterStep(generate_enter(scopes, temp_symbols, symbol_counters))
    /\ ri' = 0
    /\ parts' = <<>>
    /\ all_preparts' = <<>>
    /\ all_quadparts' = <<>>
    /\ lookups' = <<>>
    /\ UNCHANGED <<ir, clientVars, uflacsVars>>

GenerateTables ==
    /\ pc = "tables"
    /\ parts' = generate_quadrature_tables(ir) \o generate_element_tables(ir)
                    \o generate_geometry_tables(ir)
    /\ pc' = "rules"
    /\ ri' = 1
    /\ UNCHANGED <<ir, scopes, temp_symbols, symbol_counters, all_preparts,
                   all_quadparts, result, calls, lookups, clientVars, uflacsVars>>

PiecewiseStep(rule, pp) ==
    /\ scopes' = pp.scopes
    /\ IF pp.err # "none"
       THEN /\ pc' = "failed"
            /\ result' = pp.err
            /\ UNCHANGED all_preparts
       ELSE /\ pc' = "quadloop"
            /\ all_preparts' = all_preparts \o
                   << [k |-> "definitions", q |-> rule, items |-> pp.definitions],
                      [k |-> "intermediates", q |-> rule, items |-> pp.intermediates] >>
            /\ UNCHANGED result

GeneratePiecewise ==
    /\ pc = "rules"
    /\ ri <= Len(integrand_keys(ir))
    /\ PiecewiseStep(integrand_keys(ir)[ri],
                     generate_piecewise_partition(scopes, ir.F, integrand_keys(ir)[ri]))
    /\ UNCHANGED <<ir, temp_symbols, symbol_counters, ri, parts, all_quadparts,
                   calls, lookups, clientVars, uflacsVars>>

QuadloopStep(ql) ==
    /\ scopes' = ql.scopes
    /\ temp_symbols' = ql.temp_symbols
    /\ symbol_counters' = ql.symbol_counters
    /\ lookups' = ql.lookups
    /\ IF ql.err # "none"
       THEN /\ pc' = "failed"
            /\ result' = ql.err
            /\ UNCHANGED <<all_quadparts, ri>>
       ELSE /\ pc' = "rules"
            /\ ri' = ri + 1
            /\ all_quadparts' = all_quadparts \o ql.loop
            /\ UNCHANGED result

GenerateQuadloop ==
    /\ pc = "quadloop"
    /\ QuadloopStep(generate_quadrature_loop(
           [temp_symbols |-> temp_symbols,
            symbol_counters |-> symbol_counters,
            lookups |-> lookups],
           scopes, ir, integrand_keys(ir)[ri]))
    /\ UNCHANGED <<ir, parts, all_preparts, calls, clientVars, uflacsVars>>

\* parts += all_preparts; parts += all_quadparts
collect_parts_loops_first(tables, preparts, quadparts) ==
    tables \o quadparts \o preparts

collect_parts(tables, preparts, quadparts) ==
    tables \o preparts \o quadparts

GenerateReturn ==
    /\ pc = "rules"
    /\ ri > Len(integrand_keys(ir))
    /\ pc' = "done"
    /\ result' = "ok"
    /\ parts' = collect_parts(parts, all_preparts, all_quadparts)
    /\ UNCHANGED <<ir, scopes, temp_symbols, symbol_counters, ri,
                   all_preparts, all_quadparts, calls, lookups, clientVars, uflacsVars>>

(***************************************************************************)
(* The IRs the generator is run on: three families, each varying one part  *)
(* of the IR over a bounded set.                                           *)
(*   GraphIRs : any factorization graph of at most MaxNodes nodes, the     *)
(*              same for every rule but for the rules of swapped, where    *)
(*              piecewise and varying are exchanged; at most one term      *)
(*   BlockIRs : one rule, a fixed graph, any list of at most MaxTerms      *)
(*              block-data records of rank 1, 2 or 0, or of at most MaxOdd *)
(*              records some of which are malformed                        *)
(*   OrderIRs : any integral type and any order of any rules               *)
(***************************************************************************)
Statuses == {"piecewise", "varying", "inactive"}

GraphExprs == {"two", "w", "x", "nw", "wx", "lt"}

NodeChoices == [expression : GraphExprs, status : Statuses]

NodeLists == UNION {[1..n -> NodeChoices] : n \in 0..MaxNodes}

SwapStatus(nodes) ==
    [i \in 1..Len(nodes) |->
        [nodes[i] EXCEPT !.status =
            CASE @ = "piecewise" -> "varying"
              [] @ = "varying"   -> "piecewise"
              [] OTHER           -> @]]

GraphIRs ==
    {MkIR("cell", RuleSeq,
          [r \in Rules |-> IF r \in sw THEN SwapStatus(nodes) ELSE nodes],
          [r \in Rules |-> b]) :
        nodes \in NodeLists,
        sw \in SUBSET (Rules \ {1}),
        b \in {<<>>} \cup {<<NormalTerm(<<td_s>>, fi, FALSE)>> : fi \in 1..MaxNodes}}

BlockNodes ==
    << [expression |-> "w", status |-> "piecewise"],
       [expression |-> "one", status |-> "piecewise"] >>

Slots == {td_s, td_v0, td_v1, td_one}

NormalTerms ==
    {NormalTerm(<<td>>, fi, FALSE) : td \in Slots, fi \in 1..2}
        \cup {NormalTerm(<<td_s>>, 1, TRUE)}

OddTerms ==
    { Term(<<td_s>>, 0, <<"zeros">>, <<1>>, FALSE, FALSE),
      Term(<<td_zero>>, 0, <<"varying">>, <<1>>, FALSE, FALSE),
      Term(<<td_zero>>, 0, <<"zeros">>, <<1>>, FALSE, FALSE),
      Term(<<td_s>>, 0, <<"varying">>, <<>>, FALSE, FALSE),
      Term(<<td_s>>, 0, <<"varying">>, <<1, 2>>, FALSE, FALSE),
      Term(<<td_s>>, 0, <<"varying">>, <<3>>, FALSE, FALSE),
      Term(<<td_s>>, 0, <<"varying">>, <<1>>, FALSE, TRUE),
      Term(<<td_v0>>, 1, <<"varying">>, <<1>>, FALSE, FALSE),
      NormalTerm(<<td_v0>>, 1, FALSE),
      NormalTerm(<<td_s>>, 2, FALSE) }

MatrixTerms ==
    {NormalTerm(<<a, b>>, 1, FALSE) : a, b \in {td_s, td_v1}}

ScalarTerms == {NormalTerm(<<>>, fi, FALSE) : fi \in 1..2}

TermLists(terms, n) == UNION {[1..m -> terms] : m \in 0..n}

\* the two components of a vector element, and a record filed under the
\* dofs (1,3) whose table reference has offset 0: its dofs are not aligned
\* with its table
VectorTerms ==
    { NormalTerm(<<td_v0>>, 1, FALSE),
      NormalTerm(<<td_v1>>, 1, FALSE),
      [NormalTerm(<<td_v0>>, 1, FALSE) EXCEPT !.blockmap = <<<<1, 3>>>>] }

BlockLists ==
    TermLists(NormalTerms, MaxTerms) \cup TermLists(OddTerms, MaxOdd)
        \cup TermLists(MatrixTerms, MaxTerms) \cup TermLists(ScalarTerms, MaxTerms)
        \cup TermLists(VectorTerms, MaxTerms)

BlockIRs ==
    {MkIR("cell", <<1>>, [r \in Rules |-> BlockNodes],
          [r \in Rules |-> IF r = 1 THEN b ELSE <<>>]) :
        b \in BlockLists}

\* the element tables of a custom integral: a dict from a key to an element
\* table, with the position of its component element in ir.finite_elements
ElemIds == 0..MaxElems

ElementTables ==
    {et \in UNION {[1..n -> [id : ElemIds, fe : ElemIds]] : n \in 0..MaxElems} :
        \A i, j \in 1..Len(et) : i # j => et[i].id # et[j].id}

CustomIRs ==
    {[MkIR("custom", <<1>>, [r \in Rules |-> BlockNodes],
           [r \in Rules |-> <<NormalTerm(<<td_s>>, 1, FALSE)>>])
         EXCEPT !.element_tables = et] : et \in ElementTables}

\* graphs of four nodes: w, the same terminal on a sub-mesh, and two
\* operators on w, each piecewise or varying
ChainExprs == <<"w", "ws", "nw", "lt">>

ChainIRs ==
    {MkIR("cell", RuleSeq,
          [r \in Rules |->
              [n \in 1..Len(ChainExprs) |->
                  [expression |-> ChainExprs[n], status |-> st[n]]]],
          [r \in Rules |-> <<>>]) :
        st \in [1..Len(ChainExprs) -> {"piecewise", "varying"}]}

RuleOrders ==
    {s \in UNION {[1..n -> Rules] : n \in 0..NumRules} :
        \A i, j \in 1..Len(s) : i # j => s[i] # s[j]}

OrderIRs ==
    {MkIR(ty, rules, [r \in Rules |-> BlockNodes],
          [r \in Rules |-> <<NormalTerm(<<td_s>>, 1, TRUE)>>]) :
        ty \in IntegralTypes, rules \in RuleOrders}

(***************************************************************************)
(* The uflacs integral generator                                           *)
(* (uflacs/generation/integralgenerator.py, class IntegralGenerator).      *)
(*                                                                         *)
(* Its ir holds the quadrature rules (num_points -> weights and points)    *)
(* and one expression ir per num_points: the list V of subexpressions, the *)
(* piecewise and varying markers, the argument factorization AF            *)
(* (tuple of modified-argument indices -> index of the factor in V), the   *)
(* table ranges MATR of the modified arguments and the unique tables.      *)
(* Code is kept as the tree of statements handed to format_code.           *)
(***************************************************************************)
UflacsPoints == {1, 2}

UflacsExprs == {"one", "w", "nw", "lt"}

is_modified_terminal(v) == v \in Terminals \cup Literals

is_constant_value(v) == ufl_is_literal(v)

NoVariable == ""

NoVariables == [v \in Exprs |-> NoVariable]

Comment(text) == [k |-> "Comment", text |-> text]

Blank == [k |-> "Blank"]

ArrayDecl(type, name, size) ==
    [k |-> "ArrayDecl", type |-> type, name |-> name, size |-> size]

ArrayAccess(name, j) == name \o "[" \o format_int(j) \o "]"

Assign(lhs, rhs) == [k |-> "Assign", lhs |-> lhs, rhs |-> rhs]

AssignAdd(lhs, factors) == [k |-> "AssignAdd", lhs |-> lhs, factors |-> factors]

ForRange(index, begin, end, body) ==
    [k |-> "ForRange", index |-> index, begin |-> begin, end |-> end,
     body |-> body]

Block(body) == [k |-> "Block", body |-> body]

(***************************************************************************)
(* sorted(...) over a set of integers and over a set of integer tuples of  *)
(* one length (python orders tuples lexicographically).                    *)
(***************************************************************************)
RECURSIVE sorted(_)
sorted(S) ==
    IF S = {} THEN <<>>
    ELSE LET m == CHOOSE x \in S : \A y \in S : x <= y
         IN  <<m>> \o sorted(S \ {m})

RECURSIVE tuple_le(_, _)
tuple_le(a, b) ==
    IF a = <<>> THEN TRUE
    ELSE IF b = <<>> THEN FALSE
    ELSE IF Head(a) # Head(b) THEN Head(a) < Head(b)
    ELSE tuple_le(Tail(a), Tail(b))

RECURSIVE sorted_tuples(_)
sorted_tuples(S) ==
    IF S = {} THEN <<>>
    ELSE LET m == CHOOSE x \in S : \A y \in S : tuple_le(x, y)
         IN  <<m>> \o sorted_tuples(S \ {m})

(***************************************************************************)
(* The collaborators of the uflacs generator, by contract.                 *)
(*   expr_formatter.visit(v): the variable stored for v when there is one, *)
(*     the expression formatted inline over its operands otherwise;        *)
(*   backend_access(terminal, mt, table_range): the access expression of a *)
(*     modified terminal; backend_definitions(...): the statement defining *)
(*     it;  backend_definitions.initial(): the initial statements;         *)
(*   error(...): logs its message and raises.                              *)
(***************************************************************************)
RECURSIVE expr_formatter_visit(_, _)
expr_formatter_visit(vs, v) ==
    IF vs[v] # NoVariable THEN vs[v]
    ELSE IF v = "one" THEN "1.0"
    ELSE IF v = "two" THEN "2.0"
    ELSE IF v = "nw" THEN "-" \o expr_formatter_visit(vs, "w")
    ELSE IF v = "wx"
    THEN expr_formatter_visit(vs, "w") \o " * " \o expr_formatter_visit(vs, "x")
    ELSE IF v = "lt"
    THEN expr_formatter_visit(vs, "w") \o " < " \o expr_formatter_visit(vs, "two")
    ELSE v

uflacs_backend_access(v) == "access_" \o v

uflacs_backend_definitions(v, vaccess) ==
    [k |-> "Definition", of |-> v, access |-> vaccess]

backend_definitions_initial == <<Comment("initial")>>

uflacs_error(message) == "RuntimeError"

(***************************************************************************)
(* __init__: the element tensor shape; the constructor only completes when *)
(* the expression irs and the quadrature rules have the same num_points    *)
(* (the other branch calls a name the module does not define).             *)
(***************************************************************************)
uflacs_init_completes(I) == DOMAIN I.expr_ir = I.quadrature_rules

A_shape(I) ==
    IF I.domain_type = "interior_facet"
    THEN [i \in 1..Len(I.prim_idims) |-> 2 * I.prim_idims[i]]
    ELSE I.prim_idims

RECURSIVE product(_)
product(s) == IF s = <<>> THEN 1 ELSE Head(s) * product(Tail(s))

uflacs_generate_using_statements == <<>>

(***************************************************************************)
(* generate_quadrature_tables: a heading when there is a rule, then per    *)
(* num_points in ascending order the weights, the points and a blank.      *)
(***************************************************************************)
PointDim == 2

RECURSIVE uflacs_quadrature_tables_loop(_)
uflacs_quadrature_tables_loop(nps) ==
    IF nps = <<>> THEN <<>>
    ELSE LET num_points == Head(nps)
             wname == "weights" \o format_int(num_points)
             pname == "points" \o format_int(num_points)
         IN  << ArrayDecl("static const double", wname, num_points),
                ArrayDecl("static const double", pname, num_points * PointDim),
                Blank >>
             \o uflacs_quadrature_tables_loop(Tail(nps))

uflacs_generate_quadrature_tables(I) ==
    (IF I.quadrature_rules # {}
     THEN <<Comment("Section for quadrature weights and points")>>
     ELSE <<>>)
    \o uflacs_quadrature_tables_loop(sorted(I.quadrature_rules))

(***************************************************************************)
(* generate_element_tables: per num_points a comment and the declarations  *)
(* of the non-empty unique tables, by name.                                *)
(***************************************************************************)
RECURSIVE uflacs_table_decls(_)
uflacs_table_decls(tables) ==
    IF tables = <<>> THEN <<>>
    ELSE (IF Head(tables).size > 0
          THEN <<ArrayDecl("static const double", Head(tables).name,
                           Head(tables).size)>>
          ELSE <<>>)
         \o uflacs_table_decls(Tail(tables))

RECURSIVE uflacs_element_tables_loop(_, _)
uflacs_element_tables_loop(I, nps) ==
    IF nps = <<>> THEN <<>>
    ELSE <<Comment("Definitions of tables")>>
         \o uflacs_table_decls(I.expr_ir[Head(nps)].unique_tables)
         \o uflacs_element_tables_loop(I, Tail(nps))

uflacs_generate_element_tables(I) ==
    <<Comment("Section for precomputed element basis function values")>>
    \o uflacs_element_tables_loop(I, sorted(DOMAIN I.expr_ir))

(***************************************************************************)
(* uflacs_generate_tensor_reset: memset of the whole element tensor.              *)
(***************************************************************************)
uflacs_generate_tensor_reset(I) ==
    << Comment("Reset element tensor"),
       [k |-> "memset", name |-> "A", size |-> product(A_shape(I))],
       Blank >>

(***************************************************************************)
(* generate_partition(name, V, partition, table_ranges): every marked      *)
(* subexpression gets a variable; a constant is formatted in place, a      *)
(* modified terminal gets its backend access and a definition, any other   *)
(* subexpression the next slot of the array `name` and an assignment.  The *)
(* statements are returned only when a slot was assigned.                  *)
(***************************************************************************)
RECURSIVE uflacs_partition_loop(_, _, _, _, _)
uflacs_partition_loop(name, V, partition, i, acc) ==
    IF i > Len(V) THEN acc
    ELSE IF ~partition[i]
    THEN uflacs_partition_loop(name, V, partition, i + 1, acc)
    ELSE LET v == V[i]
         IN  IF is_modified_terminal(v)
             THEN IF is_constant_value(v)
                  THEN uflacs_partition_loop(name, V, partition, i + 1,
                         [acc EXCEPT !.variables[v] =
                                         expr_formatter_visit(acc.variables, v)])
                  ELSE LET vaccess == uflacs_backend_access(v)
                           vdef == uflacs_backend_definitions(v, vaccess)
                       IN  uflacs_partition_loop(name, V, partition, i + 1,
                             [acc EXCEPT !.terminalcode = Append(@, vdef),
                                         !.variables[v] = vaccess])
             ELSE LET vaccess == ArrayAccess(name, acc.j)
                      vcode == expr_formatter_visit(acc.variables, v)
                  IN  uflacs_partition_loop(name, V, partition, i + 1,
                        [acc EXCEPT !.j = acc.j + 1,
                                    !.assignments = Append(@, Assign(vaccess, vcode)),
                                    !.variables[v] = vaccess])

partition_parts(name, done) ==
    IF done.j > 0
    THEN done.terminalcode \o <<ArrayDecl("double", name, done.j)>>
         \o done.assignments
    ELSE <<>>

partition_result(name, done) ==
    [parts |-> partition_parts(name, done), variables |-> done.variables]

uflacs_generate_partition(vs, name, V, partition) ==
    partition_result(name,
        uflacs_partition_loop(name, V, partition, 1,
            [j |-> 0, terminalcode |-> <<>>, assignments |-> <<>>,
             variables |-> vs]))

(***************************************************************************)
(* uflacs_generate_piecewise_partition: a heading, then the partition "sp" of     *)
(* every num_points in ascending order.                                    *)
(***************************************************************************)
RECURSIVE uflacs_piecewise_loop(_, _, _)
uflacs_piecewise_loop(I, nps, acc) ==
    IF nps = <<>> THEN acc
    ELSE LET expr_ir == I.expr_ir[Head(nps)]
             p == uflacs_generate_partition(acc.variables, "sp", expr_ir.V,
                                            expr_ir.piecewise)
         IN  uflacs_piecewise_loop(I, Tail(nps),
                 [parts |-> acc.parts \o p.parts, variables |-> p.variables])

uflacs_generate_piecewise_partition(I, vs) ==
    uflacs_piecewise_loop(I, sorted(DOMAIN I.expr_ir),
        [parts |-> <<Comment("Section for piecewise constant computations")>>,
         variables |-> vs])

(***************************************************************************)
(* uflacs_generate_varying_partition: a heading, then the partition "sv" of the   *)
(* num_points at hand.                                                     *)
(***************************************************************************)
varying_result(p) ==
    [parts |-> <<Comment("Section for geometrically varying computations")>>
               \o p.parts,
     variables |-> p.variables]

uflacs_generate_varying_partition(I, vs, num_points) ==
    varying_result(
        uflacs_generate_partition(vs, "sv", I.expr_ir[num_points].V,
                                  I.expr_ir[num_points].varying))

(***************************************************************************)
(* uflacs_generate_integrand_accumulation: for the entries of the factorization,  *)
(* by arguments, whose table ranges are the dofblock at hand, one          *)
(* statement  A[...] += factor * argument tables.                          *)
(***************************************************************************)
dofrange(MATR, ma) == <<MATR[ma].begin, MATR[ma].end>>

idofs(rank) == [i \in 1..rank |-> "ia" \o format_int(i - 1)]

af_factor(AF, args) == (CHOOSE e \in AF : e.args = args).factor

in_dofblock_any(MATR, args, dofblock) == TRUE

in_dofblock(MATR, args, dofblock) ==
    \A iarg \in 1..Len(args) : dofblock[iarg] = dofrange(MATR, args[iarg])

accumulate_entry(I, expr_ir, vs, args) ==
    LET fcode == expr_formatter_visit(vs, expr_ir.V[af_factor(expr_ir.AF, args)])
        argfactors == [i \in 1..Len(args) |-> expr_ir.MATR[args[i]].name]
    IN  AssignAdd([name |-> "A", index |-> idofs(I.rank), shape |-> A_shape(I)],
                  <<fcode>> \o argfactors)

RECURSIVE accumulation_loop(_, _, _, _, _)
accumulation_loop(I, expr_ir, vs, dofblock, keys) ==
    IF keys = <<>> THEN <<>>
    ELSE (IF in_dofblock(expr_ir.MATR, Head(keys), dofblock)
          THEN <<accumulate_entry(I, expr_ir, vs, Head(keys))>>
          ELSE <<>>)
         \o accumulation_loop(I, expr_ir, vs, dofblock, Tail(keys))

uflacs_generate_integrand_accumulation(I, vs, num_points, dofblock) ==
    accumulation_loop(I, I.expr_ir[num_points], vs, dofblock,
        sorted_tuples({e.args : e \in I.expr_ir[num_points].AF}))

(***************************************************************************)
(* uflacs_generate_quadrature_body_dofblocks: at loop level iarg one loop per     *)
(* dof range found at that level under the outer dofblock; at the          *)
(* innermost level the accumulation.                                       *)
(***************************************************************************)
dofranges_at(expr_ir, outer_dofblock) ==
    sorted_tuples({dofrange(expr_ir.MATR, e.args[Len(outer_dofblock) + 1]) :
                     e \in {a \in expr_ir.AF :
                              \A i \in 1..Len(outer_dofblock) :
                                  dofrange(expr_ir.MATR, a.args[i]) = outer_dofblock[i]}})

RECURSIVE uflacs_generate_quadrature_body_dofblocks(_, _, _, _)
uflacs_generate_quadrature_body_dofblocks(I, vs, num_points, outer_dofblock) ==
    IF Len(outer_dofblock) = I.rank
    THEN <<Block(uflacs_generate_integrand_accumulation(I, vs, num_points, outer_dofblock))>>
    ELSE LET drs == dofranges_at(I.expr_ir[num_points], outer_dofblock)
         IN  [d \in 1..Len(drs) |->
                 ForRange("ia" \o format_int(Len(outer_dofblock)),
                          drs[d][1], drs[d][2],
                          uflacs_generate_quadrature_body_dofblocks(I, vs, num_points,
                              Append(outer_dofblock, drs[d])))]

(***************************************************************************)
(* uflacs_generate_quadrature_body and uflacs_generate_quadrature_loops: per num_points  *)
(* in ascending order one loop over the quadrature points, holding the     *)
(* varying partition and the dofblock loops.                               *)
(***************************************************************************)
quadrature_body_result(I, num_points, vp) ==
    [parts |-> <<Comment("Quadrature loop body setup")>> \o vp.parts
               \o uflacs_generate_quadrature_body_dofblocks(I, vp.variables,
                                                     num_points, <<>>),
     variables |-> vp.variables]

uflacs_generate_quadrature_body(I, vs, num_points) ==
    quadrature_body_result(I, num_points,
                           uflacs_generate_varying_partition(I, vs, num_points))

RECURSIVE uflacs_quadrature_loops_loop(_, _, _)
uflacs_quadrature_loops_loop(I, nps, acc) ==
    IF nps = <<>> THEN acc
    ELSE LET body == uflacs_generate_quadrature_body(I, acc.variables, Head(nps))
         IN  uflacs_quadrature_loops_loop(I, Tail(nps),
                 [parts |-> Append(acc.parts,
                                   ForRange("iq", 0, Head(nps), body.parts)),
                  variables |-> body.variables])

uflacs_generate_quadrature_loops(I, vs) ==
    uflacs_quadrature_loops_loop(I, sorted(DOMAIN I.expr_ir),
                                 [parts |-> <<>>, variables |-> vs])

(***************************************************************************)
(* uflacs_generate_finishing_statements: without a quadrature rule the expression *)
(* mode is asked for, which is not implemented: error(...).                *)
(***************************************************************************)
uflacs_generate_finishing_statements_unchecked(I) ==
    [err |-> "none", parts |-> <<>>]

uflacs_generate_finishing_statements(I) ==
    IF I.quadrature_rules = {}
    THEN [err |-> uflacs_error("Expression generation not implemented yet."),
          parts |-> <<>>]
    ELSE [err |-> "none", parts |-> <<>>]

(***************************************************************************)
(* format_code(Indented(parts)): the text of the statements of parts, in   *)
(* their order, one indentation level in.                                  *)
(***************************************************************************)
Indented(body) == [k |-> "Indented", body |-> body]

format_code(code) == [k |-> "text", of |-> code]

(***************************************************************************)
(* The uflacs irs at hand.  V lists its subexpressions operands first and  *)
(* every one is marked piecewise or varying; the factor of every entry of  *)
(* the factorization is the last subexpression.                            *)
(***************************************************************************)
DomainTypes == {"cell", "interior_facet"}

UflacsRanks == 0..2

UflacsMATR == << [name |-> "t0", begin |-> 0, end |-> 2],
                 [name |-> "t1", begin |-> 2, end |-> 4],
                 [name |-> "t2", begin |-> 0, end |-> 2] >>

UflacsTables == << [name |-> "t0", size |-> 4], [name |-> "t1", size |-> 4],
                   [name |-> "t2", size |-> 4], [name |-> "tz", size |-> 0] >>

OperandsFirst(V) ==
    \A i \in 1..Len(V) :
        /\ \A k \in 1..Len(V) : k # i => V[k] # V[i]
        /\ \A o \in Range(ufl_operands(V[i])) :
               ufl_is_literal(o) \/ \E k \in 1..(i - 1) : V[k] = o

UflacsVs ==
    {V \in UNION {[1..n -> UflacsExprs] : n \in 0..MaxV} : OperandsFirst(V)}

AFKeys(rank) ==
    CASE rank = 0 -> {{<<>>}}
      [] rank = 1 -> {{<<1>>, <<2>>}, {<<1>>, <<3>>}}
      [] OTHER    -> {{<<1, 2>>, <<2, 1>>}, {<<1, 1>>, <<3, 1>>}}

MkExprIR(V, st, keys) ==
    [V |-> V,
     piecewise |-> [i \in 1..Len(V) |-> st[i] = "piecewise"],
     varying |-> [i \in 1..Len(V) |-> st[i] = "varying"],
     AF |-> {[args |-> a, factor |-> Len(V)] : a \in keys},
     MATR |-> UflacsMATR,
     unique_tables |-> UflacsTables]

ExprIRs(rank) ==
    UNION {{MkExprIR(V, st, IF V = <<>> THEN {} ELSE keys) :
               st \in [1..Len(V) -> {"piecewise", "varying"}],
               keys \in AFKeys(rank)} : V \in UflacsVs}

MkUflacsIR(domain_type, rank, expr_ir) ==
    [domain_type |-> domain_type,
     prim_idims |-> [i \in 1..rank |-> 4],
     rank |-> rank,
     quadrature_rules |-> DOMAIN expr_ir,
     expr_ir |-> expr_ir]

NoCode == [k |-> "none"]

NoUflacsResult == [status |-> "none", code |-> NoCode]

UflacsConstructed(I) ==
    /\ uflacs_ir = I
    /\ variables = NoVariables
    /\ uflacs_parts = <<>>
    /\ uflacs_pc = "idle"
    /\ uflacs_result = NoUflacsResult

NoUflacs == UflacsConstructed(MkUflacsIR("cell", 0, <<>>))


(***************************************************************************)
(* __init__: the IR is stored, the scopes are initialized, the cache of    *)
(* temporary symbols and the counters are empty.                           *)
(***************************************************************************)
Constructed(I) ==
    /\ ir = I
    /\ scopes = init_scopes(Range(I.rules))
    /\ temp_symbols = {}
    /\ symbol_counters = NoCounters
    /\ pc = "idle"
    /\ ri = 0
    /\ parts = <<>>
    /\ all_preparts = <<>>
    /\ all_quadparts = <<>>
    /\ result = "none"
    /\ calls = 0
    /\ lookups = <<>>

NoCall == [op |-> "none", q |-> NoneKey, v |-> "-", res |-> NoAccess]

Init ==
    /\ \/ \E I \in GraphIRs : Constructed(I)
       \/ \E I \in BlockIRs : Constructed(I)
       \/ \E I \in OrderIRs : Constructed(I)
       \/ \E I \in CustomIRs : Constructed(I)
       \/ \E I \in ChainIRs : Constructed(I)
    /\ nsets = 0
    /\ last = NoCall
    /\ NoUflacs

Next ==
    \/ GenerateEnter
    \/ GenerateTables
    \/ GeneratePiecewise
    \/ GenerateQuadloop
    \/ GenerateReturn

Spec == Init /\ [][Next]_vars

(***************************************************************************)
(* A client of the scope store: any sequence of set_var and get_var calls  *)
(* on a freshly constructed instance.                                      *)
(***************************************************************************)
ClientExprs == {"one", "w", "wx"}

ClientAccesses == {SymAccess("sp", 1, 0, "scalar"), SymAccess("sv", 1, 0, "scalar")}

InitScope ==
    /\ Constructed(EmptyIR)
    /\ nsets = 0
    /\ last = NoCall
    /\ NoUflacs

ClientSet(q, v, a) ==
    /\ nsets < MaxSets
    /\ scopes' = set_var(scopes, q, v, a)
    /\ nsets' = nsets + 1
    /\ last' = NoCall
    /\ UNCHANGED <<ir, temp_symbols, symbol_counters, genLocals, uflacsVars>>

ClientGet(q, v) ==
    /\ last' = [op |-> "get", q |-> q, v |-> v, res |-> get_var(scopes, q, v)]
    /\ UNCHANGED <<ir, scopes, temp_symbols, symbol_counters, genLocals, nsets, uflacsVars>>

NextScope ==
    \/ \E q \in ScopeKeys, v \in ClientExprs, a \in ClientAccesses : ClientSet(q, v, a)
    \/ \E q \in ScopeKeys, v \in ClientExprs : ClientGet(q, v)

SpecScope == InitScope /\ [][NextScope]_vars

(***************************************************************************)
(* A client of the temporary symbols: any sequence of new_temp_symbol and  *)
(* get_temp_symbol calls on a freshly constructed instance.                *)
(***************************************************************************)
TempKeys == {<<1>>, <<2>>}

NoTemp == [op |-> "none", basename |-> "-", name |-> "-", defined |-> FALSE]

InitTemp ==
    /\ Constructed(EmptyIR)
    /\ nsets = 0
    /\ last = NoTemp
    /\ NoUflacs

NewTempStep(basename, new) ==
    /\ symbol_counters' = new.symbol_counters
    /\ last' = [op |-> "new", basename |-> basename, name |-> new.name,
                defined |-> FALSE]

ClientNewTemp(basename) ==
    /\ nsets < MaxTemps
    /\ nsets' = nsets + 1
    /\ NewTempStep(basename,
                   new_temp_symbol([symbol_counters |-> symbol_counters], basename))
    /\ UNCHANGED <<ir, scopes, temp_symbols, genLocals, uflacsVars>>

GetTempStep(tempname, got) ==
    /\ temp_symbols' = got.temp_symbols
    /\ symbol_counters' = got.symbol_counters
    /\ last' = [op |-> "get", basename |-> tempname, name |-> got.name,
                defined |-> got.defined]

ClientGetTemp(tempname, key) ==
    /\ nsets < MaxTemps
    /\ nsets' = nsets + 1
    /\ GetTempStep(tempname,
                   get_temp_symbol([temp_symbols |-> temp_symbols,
                                    symbol_counters |-> symbol_counters],
                                   tempname, key))
    /\ UNCHANGED <<ir, scopes, genLocals, uflacsVars>>

NextTemp ==
    \/ \E b \in Basenames : ClientNewTemp(b)
    \/ \E b \in Basenames, key \in TempKeys : ClientGetTemp(b, key)

SpecTemp == InitTemp /\ [][NextTemp]_vars

(***************************************************************************)
(* The uflacs generator: one generate() call on a constructed instance,    *)
(* one step per statement of generate().                                   *)
(***************************************************************************)
InitUflacs ==
    /\ Constructed(EmptyIR)
    /\ nsets = 0
    /\ last = NoCall
    /\ \E d \in DomainTypes, r \in UflacsRanks, P \in SUBSET UflacsPoints :
          \E e \in [P -> ExprIRs(r)] :
              /\ uflacs_init_completes(MkUflacsIR(d, r, e))
              /\ UflacsConstructed(MkUflacsIR(d, r, e))

UflacsEnter ==
    /\ uflacs_pc = "idle"
    /\ uflacs_parts' = <<uflacs_generate_using_statements, backend_definitions_initial>>
    /\ uflacs_pc' = "quadrature_tables"
    /\ uflacs_result' = [status |-> "running", code |-> NoCode]
    /\ UNCHANGED <<uflacs_ir, variables, ffcxVars>>

UflacsQuadratureTables ==
    /\ uflacs_pc = "quadrature_tables"
    /\ uflacs_parts' = Append(uflacs_parts, uflacs_generate_quadrature_tables(uflacs_ir))
    /\ uflacs_pc' = "element_tables"
    /\ UNCHANGED <<uflacs_ir, variables, uflacs_result, ffcxVars>>

UflacsElementTables ==
    /\ uflacs_pc = "element_tables"
    /\ uflacs_parts' = Append(uflacs_parts, uflacs_generate_element_tables(uflacs_ir))
    /\ uflacs_pc' = "tensor_reset"
    /\ UNCHANGED <<uflacs_ir, variables, uflacs_result, ffcxVars>>

UflacsTensorReset ==
    /\ uflacs_pc = "tensor_reset"
    /\ uflacs_parts' = Append(uflacs_parts, uflacs_generate_tensor_reset(uflacs_ir))
    /\ uflacs_pc' = "piecewise"
    /\ UNCHANGED <<uflacs_ir, variables, uflacs_result, ffcxVars>>

UflacsPartStep(next, r) ==
    /\ uflacs_parts' = Append(uflacs_parts, r.parts)
    /\ variables' = r.variables
    /\ uflacs_pc' = next

UflacsPiecewise ==
    /\ uflacs_pc = "piecewise"
    /\ UflacsPartStep("loops", uflacs_generate_piecewise_partition(uflacs_ir, variables))
    /\ UNCHANGED <<uflacs_ir, uflacs_result, ffcxVars>>

UflacsLoops ==
    /\ uflacs_pc = "loops"
    /\ UflacsPartStep("finishing", uflacs_generate_quadrature_loops(uflacs_ir, variables))
    /\ UNCHANGED <<uflacs_ir, uflacs_result, ffcxVars>>

UflacsFinishStep(f) ==
    IF f.err # "none"
    THEN /\ uflacs_pc' = "failed"
         /\ uflacs_result' = [status |-> f.err, code |-> NoCode]
         /\ UNCHANGED uflacs_parts
    ELSE /\ uflacs_pc' = "done"
         /\ uflacs_parts' = Append(uflacs_parts, f.parts)
         /\ uflacs_result' = [status |-> "returned",
                              code |-> format_code(Indented(Append(uflacs_parts, f.parts)))]

UflacsFinish ==
    /\ uflacs_pc = "finishing"
    /\ UflacsFinishStep(uflacs_generate_finishing_statements(uflacs_ir))
    /\ UNCHANGED <<uflacs_ir, variables, ffcxVars>>

NextUflacs ==
    \/ UflacsEnter
    \/ UflacsQuadratureTables
    \/ UflacsElementTables
    \/ UflacsTensorReset
    \/ UflacsPiecewise
    \/ UflacsLoops
    \/ UflacsFinish

SpecUflacs == InitUflacs /\ [][NextUflacs]_vars

(***************************************************************************)
(* C1  Scope fallback.  Whenever get_var is called for a non-literal node  *)
(* that has an entry in the piecewise scope (key None) and in no rule's    *)
(* scope, it returns the access stored in the piecewise scope, whatever    *)
(* scope key it is called with.                                            *)
(***************************************************************************)
SetOnlyInNone(v) ==
    /\ scopes[NoneKey][v] # NoAccess
    /\ \A r \in Rules : scopes[r][v] = NoAccess

C1_ScopeFallback ==
    (last.op = "get" /\ ~ufl_is_literal(last.v) /\ SetOnlyInNone(last.v))
        => last.res = scopes[NoneKey][last.v]

C1_Witness ==
    /\ last.op = "get"
    /\ last.q \in Rules
    /\ ~ufl_is_literal(last.v)
    /\ SetOnlyInNone(last.v)
    /\ last.res # NoAccess

(***************************************************************************)
(* C2  Rule isolation.  Whenever get_var is called for a non-literal node  *)
(* that has an entry under exactly one rule R and nowhere else, with a     *)
(* scope key other than R (another rule or None), it returns None.         *)
(***************************************************************************)
SetOnlyUnder(R, v) ==
    /\ scopes[R][v] # NoAccess
    /\ \A q \in ScopeKeys \ {R} : scopes[q][v] = NoAccess

C2_RuleIsolation ==
    \A R \in Rules :
        (last.op = "get" /\ ~ufl_is_literal(last.v) /\ SetOnlyUnder(R, last.v)
         /\ last.q # R)
            => last.res = NoAccess

C2_Witness ==
    /\ last.op = "get"
    /\ ~ufl_is_literal(last.v)
    /\ last.q \in Rules
    /\ \E R \in Rules : R # last.q /\ SetOnlyUnder(R, last.v)

(***************************************************************************)
(* The output of the running generate() call, for the claims below.        *)
(***************************************************************************)
\* the temporaries declared so far in scope tier q by the partitions
TierDecls(q) ==
    IF q = NoneKey
    THEN UNION {{<<i, j>> : j \in 1..Len(all_preparts[i].items)} :
                   i \in {n \in 1..Len(all_preparts) :
                             all_preparts[n].k = "intermediates"}}
    ELSE UNION {{<<i, j>> : j \in 1..Len(all_quadparts[i].intermediates)} :
                   i \in {n \in 1..Len(all_quadparts) : all_quadparts[n].q = q}}

TierDecl(q, d) ==
    IF q = NoneKey THEN all_preparts[d[1]].items[d[2]]
    ELSE all_quadparts[d[1]].intermediates[d[2]]

\* the Tensor Computation sections emitted so far, as <<loop, section>>
Sections ==
    UNION {{<<i, j>> : j \in 1..Len(all_quadparts[i].tensor_comp)} :
              i \in 1..Len(all_quadparts)}

Sec(s) == all_quadparts[s[1]].tensor_comp[s[2]]

\* the accumulation statements emitted so far, as <<loop, section, statement>>
Statements ==
    UNION {{<<s[1], s[2], k>> : k \in 1..Len(Sec(s).body)} : s \in Sections}

Stmt(s) == all_quadparts[s[1]].tensor_comp[s[2]].body[s[3]]

StmtRule(s) == all_quadparts[s[1]].q

StmtTerm(s) == all_quadparts[s[1]].tensor_comp[s[2]].blocklist[Stmt(s).term]

\* the declarations of factor*weight temporaries emitted so far
FwDecls ==
    UNION {{<<i, j>> : j \in 1..Len(all_quadparts[i].assignments)} :
              i \in 1..Len(all_quadparts)}

FwDecl(d) == all_quadparts[d[1]].assignments[d[2]]

(***************************************************************************)
(* C3  Idempotent lowering.  During a generate() call every expression is  *)
(* declared as a temporary at most once per scope tier (None, or a rule),  *)
(* and an access that is visible in a scope is what every later lookup in  *)
(* that scope returns: generate_partition skips the node instead of        *)
(* lowering it again.                                                      *)
(***************************************************************************)
OneDeclPerTier ==
    \A q \in DOMAIN scopes : \A d1, d2 \in TierDecls(q) :
        TierDecl(q, d1).v = TierDecl(q, d2).v => d1 = d2

LookupsStable ==
    \A q \in DOMAIN scopes : \A v \in Exprs :
        get_var(scopes, q, v) # NoAccess
            => get_var(scopes', q, v) = get_var(scopes, q, v)

C3_IdempotentLowering == [](OneDeclPerTier) /\ [][LookupsStable]_vars

\* rule r2's piecewise partition ran after rule r1's had declared the
\* temporary of an expression that is piecewise in r2's graph as well
C3_Witness ==
    \E i, j \in 1..Len(all_preparts) :
        /\ i < j
        /\ all_preparts[i].k = "intermediates"
        /\ all_preparts[j].k = "intermediates"
        /\ \E d \in 1..Len(all_preparts[i].items) :
             /\ \E n \in 1..Len(ir.F[all_preparts[j].q]) :
                  /\ ir.F[all_preparts[j].q][n].status = "piecewise"
                  /\ ir.F[all_preparts[j].q][n].expression = all_preparts[i].items[d].v
             /\ scopes[NoneKey][all_preparts[i].items[d].v] = all_preparts[i].items[d].symbol

(***************************************************************************)
(* C4  As stated: the scopes, the temporary-symbol cache and the name      *)
(* counters are reset at the start of every generate() call, so a call     *)
(* that has just started sees none of them filled.                         *)
(***************************************************************************)
C4_Original ==
    pc = "tables" =>
        /\ ScopesEmpty(scopes)
        /\ temp_symbols = {}
        /\ symbol_counters = NoCounters

\* a generate() call is entered in this step
Entering == calls' = calls + 1

(***************************************************************************)
(* C4  What the code does: generate() resets nothing.  Entering it leaves  *)
(* the scopes, the temporary-symbol cache and the name counters exactly as *)
(* the previous call left them; it only refuses to go on when a scope      *)
(* holds an entry, so a call that gets past its first statement runs on    *)
(* empty scopes, while cached temporaries and counters stay visible.       *)
(***************************************************************************)
C4_NothingReset ==
    [][Entering =>
          /\ UNCHANGED <<scopes, temp_symbols, symbol_counters>>
          /\ (pc' = "tables" => ScopesEmpty(scopes'))]_vars

\* a second generate() call has started with a temporary of the first call
\* still in the cache
C4_Witness ==
    /\ pc = "tables"
    /\ calls = 2
    /\ temp_symbols # {}
    /\ symbol_counters # NoCounters

(***************************************************************************)
(* C5  A generate() call on an instance whose scopes hold an entry fails   *)
(* at once with the assertion error: no table, no pre-loop part and no     *)
(* quadrature loop is emitted and nothing is returned.                     *)
(***************************************************************************)
C5_NonEmptyScopesFail ==
    [][(Entering /\ ~ScopesEmpty(scopes)) =>
          /\ pc' = "failed"
          /\ result' = "AssertionError"
          /\ parts' = <<>>
          /\ all_preparts' = <<>>
          /\ all_quadparts' = <<>>]_vars

\* the second call on an instance whose first call lowered a node has failed
C5_Witness ==
    /\ pc = "failed"
    /\ result = "AssertionError"
    /\ calls = 2
    /\ ~ScopesEmpty(scopes)
    /\ parts = <<>>

\* the block-data records of section s, and the table reference of slot i
SecTerms(s) == {Sec(s).blocklist[n] : n \in 1..Len(Sec(s).blocklist)}

\* sections of one quadrature loop are distinct canonical groups
GroupsDistinct ==
    \A s1, s2 \in Sections :
        (s1[1] = s2[1] /\ Sec(s1).blockmap = Sec(s2).blockmap) => s1 = s2

(***************************************************************************)
(* C6  As stated: records whose raw dofs differ only by block size and     *)
(* offset share a canonical group, and with block size 2 and offset 0 the  *)
(* raw ranges (0,2) and (2,4) are both in the group of the scalar block    *)
(* (0,1).                                                                  *)
(***************************************************************************)
C6_Original ==
    /\ GroupsDistinct
    /\ \A s \in Sections : \A t \in SecTerms(s) : \A i \in 1..Len(t.blockmap) :
          (/\ t.ma_data[i].block_size = 2
           /\ t.ma_data[i].offset = 0
           /\ t.blockmap[i] \in {<<0, 2>>, <<2, 4>>})
              => Sec(s).blockmap[i] = <<0, 1>>

(***************************************************************************)
(* C6  What the code does: every raw dof index d of a slot is mapped to    *)
(* (d - offset) // block_size, and records with equal results share one    *)
(* group.  So in the group of a record every raw dof d lies in             *)
(* offset + block_size * c .. offset + block_size * (c + 1) - 1 for the    *)
(* group's index c, each canonical group is emitted once per loop, and     *)
(* with block size 2 the raw range (0,2) at offset 0 and (1,3) at offset 1 *)
(* both belong to (0,1), while (2,4) at offset 0 belongs to (1,2).         *)
(***************************************************************************)
C6_Canonicalization ==
    /\ GroupsDistinct
    /\ \A s \in Sections : \A t \in SecTerms(s) : \A i \in 1..Len(t.blockmap) :
          /\ Len(Sec(s).blockmap[i]) = Len(t.blockmap[i])
          /\ \A k \in 1..Len(t.blockmap[i]) :
                /\ t.blockmap[i][k] >= t.ma_data[i].offset
                       + t.ma_data[i].block_size * Sec(s).blockmap[i][k]
                /\ t.blockmap[i][k] < t.ma_data[i].offset
                       + t.ma_data[i].block_size * (Sec(s).blockmap[i][k] + 1)
          /\ (t.ma_data[i].block_size = 2 /\ t.ma_data[i].offset = 0
                 /\ t.blockmap[i] = <<2, 4>>) => Sec(s).blockmap[i] = <<1, 2>>
          /\ (t.ma_data[i].block_size = 2
                 /\ t.blockmap[i] \in {<<0, 2>>, <<1, 3>>}
                 /\ t.blockmap[i][1] = t.ma_data[i].offset)
                => Sec(s).blockmap[i] = <<0, 1>>

\* the two components of a vector element, raw dofs (0,2) and (1,3), have
\* been put into one section
C6_Witness ==
    \E s \in Sections : \E t1, t2 \in SecTerms(s) :
        /\ t1.blockmap = <<<<0, 2>>>>
        /\ t2.blockmap = <<<<1, 3>>>>
        /\ Sec(s).blockmap = <<<<0, 1>>>>

(***************************************************************************)
(* C7  Accumulation ordering and grouping.  In every Tensor Computation    *)
(* section the loop body holds exactly one += statement per term of the    *)
(* group, none merged and none dropped, each on the tensor index and the   *)
(* factor*weight of its term; the statements on one tensor index are       *)
(* adjacent, and they are in the order of their terms in the block list.   *)
(***************************************************************************)
C7_AccumulationOrder ==
    \A s \in Sections :
        LET body == Sec(s).body
            blocklist == Sec(s).blocklist
        IN  /\ Len(body) = Len(blocklist)
            /\ \A t \in 1..Len(blocklist) :
                  Cardinality({k \in 1..Len(body) : body[k].term = t}) = 1
            /\ \A k \in 1..Len(body) :
                  body[k].A = [i \in 1..Len(Sec(s).blockmap) |->
                                  A_index(Sec(s).blockmap, blocklist[body[k].term], i)]
            /\ \A k1, k2, k3 \in 1..Len(body) :
                  (k1 < k2 /\ k2 < k3 /\ body[k1].A = body[k3].A)
                      => body[k2].A = body[k1].A
            /\ \A k1, k2 \in 1..Len(body) :
                  (k1 < k2 /\ body[k1].A = body[k2].A)
                      => body[k1].term < body[k2].term

\* a section whose third term targets the tensor index of its first term
\* and whose second term targets another one: the third term's statement
\* has been moved up to the first term's
C7_Witness ==
    \E s \in Sections :
        /\ Len(Sec(s).body) = 3
        /\ Sec(s).body[1].term = 1
        /\ Sec(s).body[2].term = 3
        /\ Sec(s).body[3].term = 2
        /\ Sec(s).body[1].A = Sec(s).body[2].A
        /\ Sec(s).body[1].A # Sec(s).body[3].A

\* statements of two different terms that take the same factor node under
\* the same rule with the same all_factors_piecewise flag
SameFactor(s1, s2) ==
    /\ s1 # s2
    /\ StmtRule(s1) = StmtRule(s2)
    /\ StmtTerm(s1).factor_indices = StmtTerm(s2).factor_indices
    /\ StmtTerm(s1).all_factors_piecewise = StmtTerm(s2).all_factors_piecewise

\* the declarations of the temporary sym emitted by the current call
DeclsOf(sym) == {d \in FwDecls : FwDecl(d).symbol = sym}

IsTemp(fw) == fw.k = "fw"

(***************************************************************************)
(* C8  As stated: when a generate() call has returned, two different terms *)
(* with the same factor node, rule and all-factors-piecewise flag use the  *)
(* same factor*weight temporary, and the call declared it exactly once.    *)
(***************************************************************************)
C8_Original ==
    pc = "done" =>
        \A s1, s2 \in Statements :
            SameFactor(s1, s2) =>
                /\ Stmt(s1).fw = Stmt(s2).fw
                /\ IsTemp(Stmt(s1).fw)
                /\ Cardinality(DeclsOf(Stmt(s1).fw)) = 1

(***************************************************************************)
(* C8  What the code does: two different terms with the same factor index, *)
(* rule and all-factors-piecewise flag use the same factor*weight          *)
(* expression.  When the factor is the literal one, that expression is the *)
(* weight access itself and no temporary is declared.  Otherwise it is one *)
(* cached temporary, which a generate() call declares at most once:        *)
(* exactly once in the first call on the instance, and not at all in a     *)
(* later call, which finds it in the cache.  No temporary is declared      *)
(* twice in a call.                                                        *)
(***************************************************************************)
C8_WeightProductCaching ==
    /\ \A d1, d2 \in FwDecls : FwDecl(d1).symbol = FwDecl(d2).symbol => d1 = d2
    /\ \A s1, s2 \in Statements :
          SameFactor(s1, s2) =>
              /\ Stmt(s1).fw = Stmt(s2).fw
              /\ IF ir.F[StmtRule(s1)][StmtTerm(s1).factor_indices[1]].expression = "one"
                 THEN /\ Stmt(s1).fw = weight_access(ir.integral_type, StmtRule(s1))
                      /\ DeclsOf(Stmt(s1).fw) = {}
                 ELSE /\ IsTemp(Stmt(s1).fw)
                      /\ Cardinality(DeclsOf(Stmt(s1).fw)) <= 1
                      /\ calls = 1 => Cardinality(DeclsOf(Stmt(s1).fw)) = 1

\* the first generate() call has returned; two terms of different block
\* groups share a factor node and use one temporary, declared once
C8_Witness ==
    /\ pc = "done"
    /\ calls = 1
    /\ \E s1, s2 \in Statements :
          /\ SameFactor(s1, s2)
          /\ s1[2] # s2[2]
          /\ IsTemp(Stmt(s1).fw)
          /\ Stmt(s1).fw = Stmt(s2).fw
          /\ Cardinality(DeclsOf(Stmt(s1).fw)) = 1

\* the block-data records of the rule whose quadrature loop is generated
RuleBlocks == ir.blocks[ir.rules[ri]]

\* the quadrature loop of the current rule is generated in this step
QuadloopDone == pc = "quadloop" /\ pc' # "quadloop"

ZerosTerm(t) ==
    \/ SeqContains(t.ttypes, "zeros")
    \/ \E i \in 1..Len(t.ma_data) : t.ma_data[i].ttype = "zeros"

NonScalarTerm(t) == Len(t.factor_indices) > 1

\* a record that generate_block_parts turns into a statement
PlainTerm(t) ==
    /\ ~ZerosTerm(t)
    /\ Len(t.factor_indices) = 1
    /\ t.factor_indices[1] \in DOMAIN ir.F[ir.rules[ri]]
    /\ ~t.transposed

(***************************************************************************)
(* C9  Zero-table rejection.  When the block-data records of a rule hold   *)
(* one with the table type zeros, in its type tags or in the table         *)
(* reference of an argument slot, generating the rule's loop aborts and    *)
(* emits nothing; the error is the RuntimeError of the type-tag check or   *)
(* the assertion of get_arg_factors when the other records are regular.    *)
(* No emitted section ever holds such a record.                            *)
(***************************************************************************)
C9_ZeroTableRejection ==
    /\ [](\A s \in Sections : \A t \in SecTerms(s) : ~ZerosTerm(t))
    /\ [][(QuadloopDone /\ \E n \in 1..Len(RuleBlocks) : ZerosTerm(RuleBlocks[n]))
            => /\ pc' = "failed"
               /\ all_quadparts' = all_quadparts
               /\ result' \notin {"running", "ok"}
               /\ (\A n \in 1..Len(RuleBlocks) :
                      ZerosTerm(RuleBlocks[n]) \/ PlainTerm(RuleBlocks[n]))
                    => result' \in {"RuntimeError", "AssertionError"}]_vars

\* generation was aborted by the assertion of get_arg_factors on a record
\* whose only zeros are in the table reference of its argument slot
C9_Witness ==
    /\ pc = "failed"
    /\ ri >= 1
    /\ result = "AssertionError"
    /\ all_quadparts = <<>>
    /\ \E n \in 1..Len(RuleBlocks) :
          /\ ZerosTerm(RuleBlocks[n])
          /\ ~SeqContains(RuleBlocks[n].ttypes, "zeros")

(***************************************************************************)
(* C10  Non-scalar rejection.  When the block-data records of a rule hold  *)
(* one with more than one factor index, generating the rule's loop aborts  *)
(* and emits nothing, with the RuntimeError when the other records are     *)
(* regular; and every factor lookup made by generate_block_parts is for a  *)
(* record with exactly one factor index.                                   *)
(***************************************************************************)
C10_NonScalarRejection ==
    /\ [](\A l \in 1..Len(lookups) : lookups[l].nfactors = 1)
    /\ [](\A s \in Sections : \A t \in SecTerms(s) : ~NonScalarTerm(t))
    /\ [][(QuadloopDone /\ \E n \in 1..Len(RuleBlocks) : NonScalarTerm(RuleBlocks[n]))
            => /\ pc' = "failed"
               /\ all_quadparts' = all_quadparts
               /\ (\A n \in 1..Len(RuleBlocks) :
                      NonScalarTerm(RuleBlocks[n]) \/ PlainTerm(RuleBlocks[n]))
                    => result' = "RuntimeError"]_vars

\* generation was aborted on a record with two factor indices after the
\* factor of a regular record of the same group had been looked up
C10_Witness ==
    /\ pc = "failed"
    /\ ri >= 1
    /\ result = "RuntimeError"
    /\ Len(lookups) >= 1
    /\ \E n \in 1..Len(RuleBlocks) : NonScalarTerm(RuleBlocks[n])
    /\ \A n \in 1..Len(RuleBlocks) : ~ZerosTerm(RuleBlocks[n])

\* the kinds of the parts of a statement list
IsPrepart(p) == "items" \in DOMAIN p

IsQuadloop(p) == "tensor_comp" \in DOMAIN p

IsTablePart(p) == ~IsPrepart(p) /\ ~IsQuadloop(p)

PartRank(p) == IF IsTablePart(p) THEN 1 ELSE IF IsPrepart(p) THEN 2 ELSE 3

(***************************************************************************)
(* C11  Output order.  The statement list returned by generate() is the    *)
(* table parts, then the pre-loop parts of all rules, then the quadrature  *)
(* loops of all rules: no pre-loop part precedes a table part and no       *)
(* quadrature loop precedes a pre-loop part or a table part.               *)
(***************************************************************************)
C11_OutputOrder ==
    pc = "done" =>
        /\ \A i, j \in 1..Len(parts) :
              i < j => PartRank(parts[i]) <= PartRank(parts[j])
        /\ SelectSeq(parts, IsPrepart) = all_preparts
        /\ SelectSeq(parts, IsQuadloop) = all_quadparts

\* a list was returned for two rules, with a table part, and the pre-loop
\* parts of the second rule, produced after the first rule's loop, precede
\* that loop
C11_Witness ==
    /\ pc = "done"
    /\ Len(all_quadparts) = 2
    /\ \E i, j, k \in 1..Len(parts) :
          /\ i < j /\ j < k
          /\ IsTablePart(parts[i])
          /\ IsPrepart(parts[j]) /\ parts[j].q = all_quadparts[2].q
          /\ parts[j].items # <<>>
          /\ IsQuadloop(parts[k]) /\ parts[k].q = all_quadparts[1].q

\* the rules of the quadrature loops emitted so far, and of the pre-loop
\* parts (two per rule: the definitions and the intermediates)
LoopRules == [i \in 1..Len(all_quadparts) |-> all_quadparts[i].q]

PrepartRules == [i \in 1..Len(all_preparts) |-> all_preparts[i].q]

(***************************************************************************)
(* C12  As stated: the rules are processed in ascending identifier order,  *)
(* so the loops and the pre-loop parts of a returned list are in ascending *)
(* order of their rules, whatever the order of the rules in the IR.        *)
(***************************************************************************)
C12_Original ==
    pc = "done" =>
        /\ \A i, j \in 1..Len(LoopRules) : i < j => LoopRules[i] < LoopRules[j]
        /\ \A i, j \in 1..Len(PrepartRules) :
              i < j => PrepartRules[i] <= PrepartRules[j]

(***************************************************************************)
(* C12  What the code does: the rules are processed in the order of the    *)
(* keys of ir.integrand, the order in which they were inserted in the IR.  *)
(* The loops emitted so far are those of the first rules in that order,    *)
(* the pre-loop parts likewise, and a returned list has them for all the   *)
(* rules in that order.                                                    *)
(***************************************************************************)
C12_InsertionOrder ==
    /\ Len(LoopRules) <= Len(ir.rules)
    /\ LoopRules = SubSeq(ir.rules, 1, Len(LoopRules))
    /\ \A i \in 1..Len(PrepartRules) : PrepartRules[i] = ir.rules[(i + 1) \div 2]
    /\ pc = "done" => (LoopRules = ir.rules /\ Len(PrepartRules) = 2 * Len(ir.rules))

\* a list was returned for an IR whose first rule has the larger identifier
C12_Witness ==
    /\ pc = "done"
    /\ Len(LoopRules) = 2
    /\ LoopRules[1] > LoopRules[2]
    /\ PrepartRules[1] > PrepartRules[3]

\* the positions of the emitted statements of kind k in the statement list
Pos(k) == {i \in 1..Len(parts) : IsTablePart(parts[i]) /\ parts[i].k = k}

Before(K1, K2) == \A i \in Pos(K1), j \in Pos(K2) : i < j

(***************************************************************************)
(* C13  As stated: in the code emitted for a custom integral every element *)
(* handle is created before any tabulation call, every tabulation precedes *)
(* the copies into the local tables, and the handles are released only     *)
(* after all copies.                                                       *)
(***************************************************************************)
C13_Original ==
    /\ Before("element_create", "tabulate")
    /\ Before("tabulate", "copy_table")
    /\ Before("copy_table", "element_destroy")

(***************************************************************************)
(* C13  What the code does: every element handle is created before any     *)
(* tabulation call and every tabulation precedes every copy into the local *)
(* tables, but the handles are released at the end of the tabulation step: *)
(* after all tabulation calls and before the first copy.                   *)
(***************************************************************************)
C13_TabulationOrder ==
    /\ Before("elements_decl", "element_create")
    /\ Before("element_create", "tabulate")
    /\ Before("tabulate", "element_destroy")
    /\ Before("element_destroy", "table_decl")
    /\ Before("element_destroy", "copy_table")
    /\ Before("tabulate", "copy_table")
    /\ Cardinality(Pos("element_destroy")) = Cardinality(Pos("element_create"))
    /\ Cardinality(Pos("tabulate")) = Cardinality(Pos("element_create"))
    /\ Cardinality(Pos("copy_table")) = Cardinality(Pos("element_create"))

\* the tables of a custom integral with two element tables have been emitted
C13_Witness ==
    /\ ir.integral_type = "custom"
    /\ Cardinality(Pos("element_create")) = 2
    /\ Cardinality(Pos("tabulate")) = 2
    /\ Cardinality(Pos("element_destroy")) = 2
    /\ Cardinality(Pos("copy_table")) = 2

\* a fresh symbol was made in this step for the basename of the call
FreshMade == last'.op # "none" /\ ~last'.defined

GetCalled == last'.op = "get"

SameGetAgain == last.op = "get" /\ last'.q = last.q /\ last'.v = last.v

TablesEmitted == pc \in {"rules", "quadloop", "done"}

(***************************************************************************)
(* C16  Quadrature weight tables.  For a custom or a point integral no     *)
(* quadrature table part is emitted; for every other integral kind exactly *)
(* one weights declaration is emitted per quadrature rule of the IR.       *)
(***************************************************************************)
C16_QuadratureTables ==
    TablesEmitted =>
        IF ir.integral_type \in CustomTypes \cup PointTypes
        THEN /\ Pos("weights") = {}
             /\ \A i \in Pos("comment") : parts[i].q # 1
        ELSE /\ Cardinality(Pos("weights")) = Len(ir.rules)
             /\ \A r \in 1..Len(ir.rules) :
                   Cardinality({i \in Pos("weights") : parts[i].q = ir.rules[r]}) = 1

\* the tables of a point integral with two quadrature rules were emitted
\* without any weights declaration
C16_Witness ==
    /\ TablesEmitted
    /\ ir.integral_type \in PointTypes
    /\ Len(ir.rules) = 2
    /\ parts # <<>>
    /\ Pos("weights") = {}

(***************************************************************************)
(* C17  No quadrature rule.  A uflacs generate() call on an integral with  *)
(* no quadrature rule at all fails: once the call is over its outcome is   *)
(* the error raised by the finishing statements and no code has been       *)
(* returned; and code is only ever returned for an integral with a rule.   *)
(***************************************************************************)
UflacsOver == uflacs_pc \in {"done", "failed"}

TransposedTerm(t) == t.transposed

RegularTerm(t) ==
    /\ ~ZerosTerm(t)
    /\ Len(t.factor_indices) = 1
    /\ t.factor_indices[1] \in DOMAIN ir.F[ir.rules[ri]]

C18_TransposedRejection ==
    /\ [](\A s \in Sections : \A t \in SecTerms(s) : ~TransposedTerm(t))
    /\ [][(QuadloopDone /\ \E n \in 1..Len(RuleBlocks) : TransposedTerm(RuleBlocks[n]))
            => /\ pc' = "failed"
               /\ all_quadparts' = all_quadparts
               /\ (\A n \in 1..Len(RuleBlocks) : RegularTerm(RuleBlocks[n]))
                    => result' = "AssertionError"]_vars

\* generation was aborted by the assertion on a transposed record after a
\* regular record of the rule had been turned into a statement
C18_Witness ==
    /\ pc = "failed"
    /\ ri >= 1
    /\ result = "AssertionError"
    /\ all_quadparts = <<>>
    /\ \E n \in 1..Len(RuleBlocks) : TransposedTerm(RuleBlocks[n])
    /\ \E n \in 1..Len(RuleBlocks) : PlainTerm(RuleBlocks[n])
    /\ \A n \in 1..Len(RuleBlocks) : RegularTerm(RuleBlocks[n])

\* the node of the factorization graph that a factor lookup was made for
FactorNode(l) == ir.F[lookups[l].q][lookups[l].factor_index]

LoweredStatus(n) == n.status \in {"piecewise", "varying"}

\* C19 as stated: no factor lookup of generate_block_parts yields absent,
\* whatever the status of the factor node
C19_Original == \A l \in 1..Len(lookups) : lookups[l].f # NoAccess

(***************************************************************************)
(* C19  Factor availability.  Whenever generate_block_parts looks up the   *)
(* factor of a term for rule R and the factor node is a literal or has the *)
(* status piecewise or varying, the lookup yields an access (the piecewise *)
(* and varying partitions of R ran before).  Only for a factor node that   *)
(* is no literal and has another status can the lookup yield absent.       *)
(***************************************************************************)
C19_FactorAvailability ==
    \A l \in 1..Len(lookups) :
        (ufl_is_literal(lookups[l].v) \/ LoweredStatus(FactorNode(l)))
            => lookups[l].f # NoAccess

\* a term's factor was found in the rule's own scope, where the varying
\* partition of the rule had stored it
C19_Witness ==
    \E l \in 1..Len(lookups) :
        /\ FactorNode(l).status = "varying"
        /\ ~ufl_is_literal(lookups[l].v)
        /\ lookups[l].f = scopes[lookups[l].q][lookups[l].v]
        /\ lookups[l].f # NoAccess
        /\ pc = "done"

\* the output-tensor indices a statement writes for argument slot i as the
\* local loop index runs over 0 .. n-1, n the dofs of the canonical block
WrittenIndices(s, i) ==
    [k \in 1..Len(Sec(<<s[1], s[2]>>).blockmap[i]) |->
        Stmt(s).A[i].mult * (k - 1) + Stmt(s).A[i].offset]

(***************************************************************************)
(* C20  Round trip of canonicalization and index reconstruction.  For      *)
(* every accumulation statement emitted and every argument slot, the       *)
(* output-tensor indices written as the local loop index runs over         *)
(* 0 .. n-1 are the raw dofblock indices of the statement's term for that  *)
(* slot, in order.                                                         *)
(***************************************************************************)
C20_RoundTrip ==
    \A s \in Statements : \A i \in 1..Len(Stmt(s).A) :
        WrittenIndices(s, i) = StmtTerm(s).blockmap[i]

\* a statement of the record filed under the dofs (2,4) of a table with
\* block size 2 and offset 0 has been emitted and writes the entries 0, 2
C20_Diverges ==
    \E s \in Statements :
        /\ StmtTerm(s).blockmap = <<<<2, 4>>>>
        /\ StmtTerm(s).ma_data[1].offset = 0
        /\ StmtTerm(s).ma_data[1].block_size = 2
        /\ WrittenIndices(s, 1) = <<0, 2>>
        /\ pc = "done"

(***************************************************************************)
(* C21  Loop nest.  The loops of every Tensor Computation section, listed  *)
(* from the outermost to the innermost, are one per argument slot of the   *)
(* group: the k-th loop from the inside runs over slot k - 1, so the       *)
(* innermost runs over slot 0 and the outermost over the last slot.  The   *)
(* range of the loop over a slot is the number of dofs of that slot's      *)
(* table in every record of the group, so the nest does not depend on the  *)
(* order of the records.                                                   *)
(***************************************************************************)
C21_LoopNest ==
    \A s \in Sections :
        /\ Len(Sec(s).loops) = Len(Sec(s).blockmap)
        /\ \A k \in 1..Len(Sec(s).loops) :
              /\ Sec(s).loops[k].slot = Len(Sec(s).loops) + 1 - k
              /\ \A t \in SecTerms(s) :
                    Sec(s).loops[k].size = t.ma_data[Sec(s).loops[k].slot].ndofs

\* a section of rank 2 built from two different records has been emitted
C21_Witness ==
    \E s \in Sections :
        /\ Len(Sec(s).loops) = 2
        /\ Sec(s).loops[1].slot = 2
        /\ \E t1, t2 \in SecTerms(s) : t1 # t2
        /\ pc = "done"

\* the intermediates lists returned by the generate_partition calls so far,
\* as <<base, rule, list>>: the piecewise partitions kept in all_preparts
\* and the varying partitions kept in the quadrature loops
PartitionLists ==
    {<<"sp", all_preparts[i].q, all_preparts[i].items>> :
        i \in {n \in 1..Len(all_preparts) : all_preparts[n].k = "intermediates"}}
    \cup {<<"sv", all_quadparts[i].q, all_quadparts[i].intermediates>> :
             i \in 1..Len(all_quadparts)}

ModeOf(base) == IF base = "sp" THEN "piecewise" ELSE "varying"

(***************************************************************************)
(* C22  Sequential numbering.  In the intermediates list returned by one   *)
(* generate_partition call the k-th declaration (k from 0) declares the    *)
(* symbol <partition symbol>_k, so there are no gaps and no repeats, and   *)
(* every declaration is for an operator node of the rule's graph whose     *)
(* status is the mode of the partition, each node at most once.            *)
(***************************************************************************)
C22_SequentialNumbering ==
    \A p \in PartitionLists :
        /\ \A k \in 1..Len(p[3]) :
              /\ p[3][k].symbol.k = "sym"
              /\ p[3][k].symbol.e = p[1]
              /\ p[3][k].symbol.q = p[2]
              /\ p[3][k].symbol.j = k - 1
              /\ p[3][k].v \in Operators
              /\ \E n \in 1..Len(ir.F[p[2]]) :
                    /\ ir.F[p[2]][n].expression = p[3][k].v
                    /\ ir.F[p[2]][n].status = ModeOf(p[1])
        /\ \A k1, k2 \in 1..Len(p[3]) : p[3][k1].v = p[3][k2].v => k1 = k2

\* a partition that lowered a terminal before its two operators returned
\* the declarations numbered 0 and 1
C22_Witness ==
    \E p \in PartitionLists :
        /\ Len(p[3]) = 2
        /\ p[3][2].symbol.j = 1
        /\ \E n \in 1..Len(ir.F[p[2]]) :
              /\ ir.F[p[2]][n].expression \in Terminals
              /\ ir.F[p[2]][n].status = ModeOf(p[1])

\* the rule at hand in generate()'s loop
CurrentRule == integrand_keys(ir)[ri]

\* the partition of the rule at hand in the given mode, storing under the
\* scope key, will reach an operator node that has no access yet and an
\* operand that has none and is not lowered before it either
StuckNode(mode, key, n) ==
    LET nodes == ir.F[CurrentRule]
    IN  /\ nodes[n].status = mode
        /\ nodes[n].expression \in Operators
        /\ get_var(scopes, key, nodes[n].expression) = NoAccess
        /\ \E o \in Range(ufl_operands(nodes[n].expression)) :
              /\ get_var(scopes, key, o) = NoAccess
              /\ \A m \in 1..(n - 1) :
                    ~(nodes[m].status = mode /\ nodes[m].expression = o)

\* a step of generate() that runs a partition onto such a node
PartitionAborts ==
    /\ (pc = "rules" /\ pc' = "failed")
          => (result' = "RuntimeError" /\ all_preparts' = all_preparts)
    /\ (pc = "rules" /\ pc' # "rules" /\ ri <= Len(integrand_keys(ir)))
          => (\A n \in 1..Len(ir.F[CurrentRule]) :
                (StuckNode("piecewise", NoneKey, n)
                   => (/\ pc' = "failed"
                       /\ scopes'[NoneKey][ir.F[CurrentRule][n].expression]
                              = NoAccess)))
    /\ (pc = "quadloop" /\ pc' # "quadloop")
          => (\A n \in 1..Len(ir.F[CurrentRule]) :
                (StuckNode("varying", CurrentRule, n)
                   => (/\ pc' = "failed"
                       /\ result' = "RuntimeError"
                       /\ all_quadparts' = all_quadparts
                       /\ scopes'[CurrentRule][ir.F[CurrentRule][n].expression]
                              = NoAccess)))

(***************************************************************************)
(* C23  Dtype merge fails fast.  When a partition comes to lower an        *)
(* operator node one of whose operands has no access (it was never         *)
(* lowered), generation aborts with the RuntimeError of extract_dtype: the *)
(* call fails, no part is added to the output and the node gets no scope   *)
(* entry.  No declaration ever holds an absent operand, and no operator    *)
(* has a scope entry while an operand of it has none.                      *)
(***************************************************************************)
C23_DtypeFailsFast ==
    /\ [](\A p \in PartitionLists : \A k \in 1..Len(p[3]) :
             \A i \in 1..Len(p[3][k].vops) : p[3][k].vops[i] # NoAccess)
    /\ [](\A q \in DOMAIN scopes : \A v \in Operators :
             scopes[q][v] # NoAccess
                => \A o \in Range(ufl_operands(v)) : get_var(scopes, q, o) # NoAccess)
    /\ [][PartitionAborts]_vars

\* the varying partition of the first rule was aborted on the operator -w,
\* whose operand w had never been lowered
C23_Witness ==
    /\ pc = "failed"
    /\ result = "RuntimeError"
    /\ ri = 1
    /\ Len(all_preparts) = 2
    /\ all_quadparts = <<>>
    /\ \E n \in 1..Len(ir.F[CurrentRule]) :
          /\ ir.F[CurrentRule][n].expression = "nw"
          /\ ir.F[CurrentRule][n].status = "varying"
    /\ get_var(scopes, CurrentRule, "w") = NoAccess
    /\ scopes[CurrentRule]["nw"] = NoAccess

\* the definitions lists returned by the generate_partition calls so far,
\* as <<mode, rule, scope key, list>>
DefinitionLists ==
    {<<"piecewise", all_preparts[i].q, NoneKey, all_preparts[i].items>> :
        i \in {n \in 1..Len(all_preparts) : all_preparts[n].k = "definitions"}}
    \cup {<<"varying", all_quadparts[i].q, all_quadparts[i].q,
             all_quadparts[i].definitions>> : i \in 1..Len(all_quadparts)}

(***************************************************************************)
(* C24  No duplicated definitions.  In the definitions list of one         *)
(* generate_partition call no two elements are equal, and every modified   *)
(* terminal of the partition has its access in the scope, also the one     *)
(* whose definition equals a definition collected before it in the call    *)
(* and added no element.                                                   *)
(***************************************************************************)
C24_NoDuplicateDefinitions ==
    \A d \in DefinitionLists :
        /\ \A k1, k2 \in 1..Len(d[4]) : d[4][k1] = d[4][k2] => k1 = k2
        /\ \A n \in 1..Len(ir.F[d[2]]) :
              (ir.F[d[2]][n].status = d[1] /\ ir.F[d[2]][n].expression \in Terminals)
                 => get_var(scopes, d[3], ir.F[d[2]][n].expression) # NoAccess

\* a partition lowered w and then ws, whose definition equals that of w:
\* one definition was collected and both accesses were recorded
C24_Witness ==
    \E d \in DefinitionLists :
        /\ Len(d[4]) = 1
        /\ d[4][1] = backend_definitions_get("ws", d[3])
        /\ scopes[d[3]]["w"] = backend_access_get("w", d[3])
        /\ scopes[d[3]]["ws"] = backend_access_get("ws", d[3])
        /\ scopes[d[3]]["w"] # scopes[d[3]]["ws"]

(***************************************************************************)
(* C25  Only sections are collected.  Every element of a definitions list  *)
(* that generate_partition returns is a definition section of the          *)
(* backend: a modified terminal without a backend definition adds          *)
(* nothing, and generate() never stops in the per-definition section       *)
(* check of generate_quadrature_loop.                                      *)
(***************************************************************************)
C25_OnlySections ==
    /\ \A d \in DefinitionLists : \A k \in 1..Len(d[4]) : IsSection(d[4][k])
    /\ ~ /\ pc = "failed"
          /\ result = "AssertionError"
          /\ calls = 1
          /\ ri \in 1..Len(ir.rules)
          /\ ir.blocks[CurrentRule] = <<>>
          /\ \E n \in 1..Len(ir.F[CurrentRule]) :
                /\ ir.F[CurrentRule][n].expression = "x"
                /\ ir.F[CurrentRule][n].status = "varying"

\* the piecewise partition returned a definitions list that holds the
\* absent definition of the terminal x
C25_Diverges ==
    \E d \in DefinitionLists :
        /\ d[1] = "piecewise"
        /\ \E k \in 1..Len(d[4]) : d[4][k] = NoDef
        /\ get_var(scopes, NoneKey, "x") = backend_access_get("x", NoneKey)

\* the handle indices of the emitted statements of kind k
Handles(k) == {parts[i].q : i \in Pos(k)}

(***************************************************************************)
(* C26  Handles released are the handles created.  In the code emitted     *)
(* for a custom integral the indices of the destroy calls are exactly the  *)
(* ids of the create calls, and no index is destroyed twice, for every     *)
(* key set of element_tables.                                              *)
(***************************************************************************)
C26_ReleaseMatchesCreate ==
    /\ Handles("element_destroy") = Handles("element_create")
    /\ Cardinality(Pos("element_destroy")) = Cardinality(Handles("element_destroy"))

\* element_tables has the keys 1 and 2: elements[1] and elements[2] are
\* created, elements[0] and elements[1] are destroyed
C26_Diverges ==
    /\ pc = "done"
    /\ Handles("element_create") = {1, 2}
    /\ Handles("element_destroy") = {0, 1}

(***************************************************************************)
(* C27  Copy loops read tabulated arrays.  In the code emitted for a       *)
(* custom integral the run-time array read by every copy loop is named by  *)
(* the key of the copied element table, and it is an array that a          *)
(* tabulation call before the loop declared and filled.                    *)
(***************************************************************************)
C27_CopyReadsTabulated ==
    \A i \in Pos("copy_table") :
        /\ parts[i].src = parts[i].q
        /\ \E j \in Pos("tabulate") : j < i /\ parts[j].q = parts[i].src

\* the only element table has the key 0 and its component element is at
\* position 1 of ir.finite_elements: table_0 is filled, table_1 is read
C27_Diverges ==
    /\ pc = "done"
    /\ Handles("tabulate") = {0}
    /\ \E i \in Pos("copy_table") : parts[i].q = 0 /\ parts[i].src = 1

\* the statements of the piecewise section and of the bodies of the
\* quadrature loops emitted so far
PiecewiseSection == IF Len(uflacs_parts) >= 6 THEN uflacs_parts[6] ELSE <<>>

QuadratureLoops == IF Len(uflacs_parts) >= 7 THEN uflacs_parts[7] ELSE <<>>

PartitionStatements ==
    {PiecewiseSection[k] : k \in 1..Len(PiecewiseSection)}
    \cup UNION {{QuadratureLoops[n].body[k] : k \in 1..Len(QuadratureLoops[n].body)} :
                  n \in 1..Len(QuadratureLoops)}

EmittedDefinitions == {s.of : s \in {t \in PartitionStatements : t.k = "Definition"}}

(***************************************************************************)
(* C28  Terminal definitions are emitted (uflacs).  Whenever the access    *)
(* of a modified terminal is recorded in the formatter's variables, the    *)
(* statement defining it is among the statements generate_partition        *)
(* returned, also for a partition without an operator node.                *)
(***************************************************************************)
C28_DefinitionsEmitted ==
    \A v \in Terminals :
        variables[v] = uflacs_backend_access(v) => v \in EmittedDefinitions

\* generate() returned for an ir whose only subexpression is the terminal
\* w: its access is recorded and no statement defines it
C28_Diverges ==
    /\ uflacs_pc = "done"
    /\ \E np \in DOMAIN uflacs_ir.expr_ir : uflacs_ir.expr_ir[np].V = <<"w">>
    /\ variables["w"] = uflacs_backend_access("w")
    /\ EmittedDefinitions = {}

\* the accumulation statements of a statement list, each with the dof
\* ranges of the loops around it, outermost first
RECURSIVE Accumulations(_, _)
Accumulations(stmts, path) ==
    IF stmts = <<>> THEN <<>>
    ELSE LET s == Head(stmts)
         IN  (CASE s.k = "ForRange" ->
                       Accumulations(s.body, Append(path, <<s.begin, s.end>>))
                [] s.k = "Block" -> Accumulations(s.body, path)
                [] s.k = "AssignAdd" -> << [path |-> path, stmt |-> s] >>
                [] OTHER -> <<>>)
             \o Accumulations(Tail(stmts), path)

\* the accumulation statements in the loop body of the n-th quadrature rule
RuleAccumulations(n) == Accumulations(QuadratureLoops[n].body, <<>>)

RuleExprIR(n) == uflacs_ir.expr_ir[QuadratureLoops[n].end]

(***************************************************************************)
(* C29  One accumulation per factorization entry (uflacs).  In the loop    *)
(* body of every quadrature rule every entry of the argument               *)
(* factorization has exactly one accumulation statement; the dof ranges    *)
(* of the loops around it are the table ranges of the entry's arguments,   *)
(* in argument order, and their number is the rank.                        *)
(***************************************************************************)
C29_OneAccumulationPerEntry ==
    \A n \in 1..Len(QuadratureLoops) :
        LET acc == RuleAccumulations(n)
            e_ir == RuleExprIR(n)
        IN  /\ Len(acc) = Cardinality(e_ir.AF)
            /\ \A e \in e_ir.AF :
                  LET hits == {k \in 1..Len(acc) :
                                 Tail(acc[k].stmt.factors)
                                    = [i \in 1..Len(e.args) |-> e_ir.MATR[e.args[i]].name]}
                  IN  /\ Cardinality(hits) = 1
                      /\ \A k \in hits :
                            /\ Len(acc[k].path) = uflacs_ir.rank
                            /\ acc[k].path = [i \in 1..Len(e.args) |->
                                                dofrange(e_ir.MATR, e.args[i])]

\* a rank-2 rule: two entries with equal table ranges share one loop nest
\* of depth two, and another rule has its entries in two different nests
C29_Witness ==
    /\ uflacs_pc = "done"
    /\ uflacs_ir.rank = 2
    /\ Len(QuadratureLoops) = 2
    /\ Len(RuleAccumulations(1)) = 2
    /\ RuleAccumulations(1)[1].path = RuleAccumulations(1)[2].path
    /\ RuleAccumulations(1)[1].stmt # RuleAccumulations(1)[2].stmt
    /\ Len(RuleAccumulations(2)) = 2
    /\ RuleAccumulations(2)[1].path # RuleAccumulations(2)[2].path

\* the array declarations and the slots assigned in the piecewise section
PiecewiseDecls ==
    {k \in 1..Len(PiecewiseSection) : PiecewiseSection[k].k = "ArrayDecl"}

PiecewiseSlots ==
    {PiecewiseSection[k].lhs :
        k \in {n \in 1..Len(PiecewiseSection) : PiecewiseSection[n].k = "Assign"}}

(***************************************************************************)
(* C30  Distinct piecewise storage (uflacs).  Across the piecewise         *)
(* section no array name is declared twice, and no two distinct            *)
(* subexpressions are bound to the same array slot.                        *)
(***************************************************************************)
C30_DistinctStorage ==
    /\ \A i, j \in PiecewiseDecls :
          PiecewiseSection[i].name = PiecewiseSection[j].name => i = j
    /\ \A v1, v2 \in Exprs :
          (variables[v1] \in PiecewiseSlots /\ variables[v1] = variables[v2])
             => v1 = v2

\* two quadrature rules with one piecewise operator node each, -w and
\* w < 2: the array sp is declared twice and both nodes are bound to sp[0]
C30_Diverges ==
    /\ uflacs_pc = "done"
    /\ Cardinality(PiecewiseDecls) = 2
    /\ \A i \in PiecewiseDecls : PiecewiseSection[i].name = "sp"
    /\ variables["nw"] = ArrayAccess("sp", 0)
    /\ variables["lt"] = ArrayAccess("sp", 0)

====
